---- MODULE Spec2Model ----
(***************************************************************************)
(* State-machine model of the bounded-concurrency fetch pipeline           *)
(* (gpt_researcher/scraper/scraper.py), of the provenance log it writes    *)
(* to (backend/server/server_utils.py, CustomLogsHandler) and of the       *)
(* source curator (gpt_researcher/skills/curator.py).                      *)
(*                                                                         *)
(* Strings the code inspects character by character (URLs, log outputs)    *)
(* are sequences of tokens, so that suffix tests, substring tests and the  *)
(* URL regular expression are computed, not assumed.                       *)
(***************************************************************************)
EXTENDS Integers, Sequences, FiniteSets, TLC

VARIABLES
    urls,          \* Scraper.urls: the batch, a sequence of URLs
    scraper,       \* Scraper.scraper: the configured backend key (cfg.scraper)
    max_workers,   \* WorkerPool.max_workers (cfg.max_scraper_workers)
    websocket,     \* Scraper.websocket: "None", "handler" (CustomLogsHandler(None, ..)),
                   \*   "handler_ws" (CustomLogsHandler(client websocket, ..))
    semaphore,     \* free slots of the pool's throttle
    executor,      \* busy threads of the pool's executor
    pc,            \* position of each URL task of the batch
    is_async,      \* per task: whether its backend has scrape_async
    fetched,       \* per task: what the backend call ended with
    reason,        \* per task: the skip reason it computed
    result,        \* per task: the dict the task returned
    sent,          \* per task: the types of the messages it passed to websocket.send_json
    sources,       \* log_data["content"]["sources"] of the handler's log file
    events,        \* len(log_data["events"]) of the handler's log file
    now,           \* logical clock behind datetime.now()
    baseline,      \* the sources list the same messages give a handler with no client
                   \*   websocket: the log of the same run without a listener
    runPc,         \* position of Scraper.run
    contents,      \* Scraper.run: what gather returned
    res,           \* Scraper.run: the returned list
    source_data,   \* curate_sources: the candidate sources
    max_results,   \* curate_sources: the number of sources asked for
    response,      \* curate_sources: what the ranking call ended with
    curatePc,      \* position of curate_sources
    curated,       \* curate_sources: the returned source list
    curator_decisions,  \* curate_sources: the returned decisions, a function of the URL
    verbose,       \* researcher.verbose
    drPc,          \* position of DetailedReport.run
    dr_websocket,  \* DetailedReport.websocket: "None" or "client"
    gr_websocket,  \* DetailedReport.gpt_researcher.websocket
    gr_verbose,    \* DetailedReport.gpt_researcher.verbose
    original,      \* run: the locals original_ws and original_verbose
    subtopics_data,  \* _get_all_subtopics: what get_subtopics ended with
    subtopics,     \* run: the list _get_all_subtopics returned
    current,       \* index of the subtopic whose pass is running, 0 if none
    assistant,     \* the subtopic_assistant of the running pass
    global_context,          \* DetailedReport.global_context, as a set of chunks
    global_urls,             \* DetailedReport.global_urls, the set gpt_researcher.visited_urls
    global_written_sections, \* DetailedReport.global_written_sections
    existing_headers,        \* DetailedReport.existing_headers
    report_parts,  \* run: report_introduction, report_body and the final report
    client,        \* the messages the client websocket has received
    drExc,         \* the call whose exception ended run, "" if none
    visited_in_run, \* the URLs the research passes of the run have visited
    log_decisions, \* content.curator_decisions of the log file, a function of the URL
    last_msg,      \* the message of the latest send_json call on the handler itself
    command,       \* the data of the start command: task and report_type
    taskPc,        \* position of the task that runs handle_start_command
    connPc,        \* position of the loop of handle_websocket_communication
    last_data,     \* the text receive_text returned last
    received,      \* the number of texts the loop has received
    created,       \* the number of tasks run_long_running_task has created
    cancel_requested  \* running_task.cancel() was called and has not taken effect

cfgVars == <<urls, scraper, max_workers, websocket>>
poolVars == <<semaphore, executor>>
taskVars == <<pc, is_async, fetched, reason, result, sent>>
logVars == <<sources, events, now, baseline>>
runVars == <<runPc, contents, res>>
batchVars == <<cfgVars, poolVars, taskVars, logVars, runVars>>
curatorVars == <<source_data, max_results, response, curatePc, curated, curator_decisions,
                 verbose>>

detailedVars == <<drPc, dr_websocket, gr_websocket, gr_verbose, original, subtopics_data,
                  subtopics, current,
                  assistant, global_context, global_urls, global_written_sections,
                  existing_headers, report_parts, client, drExc, visited_in_run>>

serverVars == <<command, taskPc>>
fileVars == <<log_decisions, last_msg>>
connVars == <<connPc, last_data, received, created, cancel_requested>>

\* What a step of the fetch batch leaves alone.
outsideBatch == <<curatorVars, detailedVars, serverVars, fileVars, connVars>>

vars == <<batchVars, curatorVars, detailedVars, serverVars, fileVars, connVars>>

(***************************************************************************)
(* Bounds of the model.                                                    *)
(***************************************************************************)
MaxBatch == 2
MaxWorkers == 2
MaxSources == 2
MaxCurated == 2
MaxSubtopics == 2
MaxEvents == 3

(***************************************************************************)
(* Values.                                                                 *)
(***************************************************************************)
\* Python's None where the code puts it in place of a content (a length).
None == -1

\* A content is modelled by its length; a backend may also return None.
ContentLens == {0, 99, 100}
Contents == {None} \cup ContentLens

\* URLs, as token sequences.
UrlOk == <<"https://", "a.test", "/ok">>
UrlPdf == <<"https://", "a.test", "/doc", ".pdf">>
Urls == {UrlOk, UrlPdf}

\* URLs of the academic repository, and a URL of another domain that has the
\* name of the repository in its path.
UrlArxiv == <<"https://", "arxiv.org", "/abs/1">>
UrlArxivPdf == <<"https://", "arxiv.org", "/pdf/1", ".pdf">>
UrlArchived == <<"https://", "web.archive.org", "/web/", "arxiv.org", "/abs/1">>
Links == Urls \cup {UrlArxiv, UrlArxivPdf, UrlArchived}
DomainOf(link) == link[2]

\* The title a backend extracts from a page; "" is the empty sequence.
TitleOf(link) == <<"title of">> \o link
NoTitle == <<>>

\* Messages of exceptions.
ScraperNotFound == "Scraper not found."
BackendError == "backend failed"

SeqsUpTo(S, n) == UNION {[1..k -> S] : k \in 0..n}

Tasks == 1..Len(urls)

(***************************************************************************)
(* Strings as token sequences.                                             *)
(***************************************************************************)
EndsWith(link, suffix) == Len(link) > 0 /\ link[Len(link)] = suffix
Contains(link, tok) == \E k \in 1..Len(link) : link[k] = tok
SetMin(S) == CHOOSE x \in S : \A y \in S : x <= y

(***************************************************************************)
(* Scraper.get_scraper: the backend class of a link, or the exception.     *)
(***************************************************************************)
SCRAPER_CLASSES ==
    [pdf |-> "PyMuPDFScraper", arxiv |-> "ArxivScraper", bs |-> "BeautifulSoupScraper"]

\* Backend keys a configuration may name; only "bs" is registered above.
ScraperKeys == {"bs", "browser"}

scraper_key(link, configured) ==
    IF EndsWith(link, ".pdf") THEN "pdf"
    ELSE IF Contains(link, "arxiv.org") THEN "arxiv"
    ELSE configured

\* The class, or ScraperNotFound when get_scraper raises.
get_scraper(link, configured) ==
    LET key == scraper_key(link, configured) IN
    IF key \in DOMAIN SCRAPER_CLASSES THEN SCRAPER_CLASSES[key] ELSE ScraperNotFound

(***************************************************************************)
(* Skip reasons: the text of the f-string and the values formatted in.     *)
(***************************************************************************)
EmptyReason == [text |-> "", n |-> None, msg |-> ""]
NoContentReason == [text |-> "No content retrieved", n |-> None, msg |-> ""]
TooShortReason(n) == [text |-> "Content too short ({n} characters)", n |-> n, msg |-> ""]
ScrapingErrorReason(msg) == [text |-> "Scraping error: {msg}", n |-> None, msg |-> msg]
SummaryFailedReason ==
    [text |-> "Scraping failed or content unavailable", n |-> None, msg |-> ""]

\* len(content) if content else 0
ContentLength(content) == IF content = None THEN 0 ELSE content

\* not content: None and the empty string are both falsy
Falsy(content) == content = None \/ content = 0

MinContentLength == 100

\* Mutant of Rejected: the boundary length is rejected too.
RejectedOffByOne(content) == Falsy(content) \/ content <= MinContentLength

\* Line 120: whether a content is rejected.
Rejected(content) == Falsy(content) \/ content < MinContentLength

\* Lines 121-125: the reason of a rejected content, EmptyReason if accepted.
RejectReason(content) ==
    IF Falsy(content) THEN NoContentReason
    ELSE IF content < MinContentLength THEN TooShortReason(content)
    ELSE EmptyReason

(***************************************************************************)
(* Messages the scraper passes to websocket.send_json.                     *)
(***************************************************************************)
LogsMsg(content, output) == [type |-> "logs", content |-> content, output |-> output]

SourceUpdateMsg(url, used, skip_reason, title, content_length) ==
    [type |-> "source_update", url |-> url, used |-> used, skip_reason |-> skip_reason,
     title |-> title, content_length |-> content_length]

ScrapedDataMsg(scraped_sites) == [type |-> "scraped_data", scraped_sites |-> scraped_sites]

AttemptMsg(link) == LogsMsg("scraping", <<"Scraping: ">> \o link)

SuccessMsg(link, content) ==
    LogsMsg("scraping_success",
            <<"Successfully scraped: ">> \o link \o <<" (", ToString(content), " chars)">>)

ErrorMsg(link, msg) ==
    LogsMsg("scraping_error", <<"Failed to scrape: ">> \o link \o <<" - ", msg>>)

(***************************************************************************)
(* CustomLogsHandler.send_json: the effect of one message on the sources   *)
(* list of the log file.                                                   *)
(***************************************************************************)
\* Strings whose lower case contains "scraping".
WithScraping == {"scraping", "scraping_success", "scraping_error", "scraping_complete",
                 "scraping_urls", "scraping_content", "Scraping: "}

IsScrapingEvent(data) ==
    data.content \in WithScraping \/ \E k \in 1..Len(data.output) : data.output[k] \in WithScraping

\* re.search of the URL pattern (lines 70, 85) in output: the match, <<>> if none.
\* A token of StopTokens begins with a character the class excludes.
Schemes == {"http://", "https://"}
StopTokens == {" ", " (", " - ", " chars)", "[", "]", "<", ">", "|"}

RECURSIVE MatchEnd(_, _)
MatchEnd(t, k) ==
    IF k + 1 <= Len(t) /\ t[k + 1] \notin StopTokens THEN MatchEnd(t, k + 1) ELSE k

MatchStarts(t) ==
    {k \in 1..Len(t) : t[k] \in Schemes /\ k + 1 <= Len(t) /\ t[k + 1] \notin StopTokens}

url_match(t) ==
    IF MatchStarts(t) = {} THEN <<>>
    ELSE LET k == SetMin(MatchStarts(t)) IN SubSeq(t, k, MatchEnd(t, k))

HasUrl(srcs, url) == \E k \in 1..Len(srcs) : srcs[k].url = url

\* The record the attempt log creates (lines 75-80): no title, no content_length.
AttemptRecord(url, t) ==
    [url |-> url, used |-> "None", skip_reason |-> EmptyReason, title |-> NoTitle,
     content_length |-> 0, scraped_at |-> t,
     keys |-> {"url", "used", "skip_reason", "scraped_at"}]

FullRecord(url, used, skip_reason, title, content_length, t) ==
    [url |-> url, used |-> used, skip_reason |-> skip_reason, title |-> title,
     content_length |-> content_length, scraped_at |-> t,
     keys |-> {"url", "used", "skip_reason", "title", "content_length", "scraped_at"}]

\* Strings whose lower case contains "selected", "rejected" or "used".
WithSelected == {"source_selected", "selected"}
WithRejected == {"source_rejected", "rejected"}
WithUsed == {"source_used", "used"}

IsSelectionEvent(data) == data.content \in WithSelected \cup WithRejected

\* Tokens whose lower case contains the words _extract_skip_reason looks for.
TooShortWords == {"too short", "content too short"}
EmptyWords == {"empty", "no content"}
ErrorWords == {"error", "failed", "Failed to scrape: "}
TimeoutWords == {"timeout"}
RelevanceWords == {"low relevance", "not relevant"}
DuplicateWords == {"duplicate"}
DeniedWords == {"access denied", "forbidden"}
HasWord(text, words) == \E k \in 1..Len(text) : text[k] \in words

ExtractedReason(text) == [text |-> text, n |-> None, msg |-> ""]

\* Lines 163-182.
extract_skip_reason(text) ==
    IF HasWord(text, TooShortWords)
    THEN ExtractedReason("Content too short (less than 100 characters)")
    ELSE IF HasWord(text, EmptyWords) THEN ExtractedReason("Empty or no content")
    ELSE IF HasWord(text, ErrorWords) THEN ExtractedReason("Scraping error or failed to load")
    ELSE IF HasWord(text, TimeoutWords) THEN ExtractedReason("Request timeout")
    ELSE IF HasWord(text, RelevanceWords) THEN ExtractedReason("Low relevance to query")
    ELSE IF HasWord(text, DuplicateWords) THEN ExtractedReason("Duplicate content")
    ELSE IF HasWord(text, DeniedWords) THEN ExtractedReason("Access denied (403/401)")
    ELSE ExtractedReason("Other reason")

\* The record a selection log creates (lines 100-105).
SelectionRecord(url, used, skip_reason, t) ==
    [url |-> url, used |-> used, skip_reason |-> skip_reason, title |-> NoTitle,
     content_length |-> 0, scraped_at |-> t,
     keys |-> {"url", "used", "skip_reason", "scraped_at"}]

\* Lines 83-105: a "logs" message of a source selection or rejection.
HandleSelection(srcs, data, t) ==
    LET url == url_match(data.output)
        used == data.content \in WithSelected \cup WithUsed
    IN  IF url = <<>> THEN srcs
        ELSE IF HasUrl(srcs, url)
        THEN LET k == SetMin({j \in 1..Len(srcs) : srcs[j].url = url}) IN
             [srcs EXCEPT ![k] =
                 [@ EXCEPT !.used = IF used THEN "True" ELSE "False",
                           !.skip_reason = IF used THEN @
                                           ELSE extract_skip_reason(data.output)]]
        ELSE Append(srcs, SelectionRecord(url, IF used THEN "True" ELSE "False",
                                          IF used THEN EmptyReason
                                          ELSE extract_skip_reason(data.output), t))

\* Mutant of HandleLogs: the attempt log appends without looking the URL up.
HandleLogsAppends(srcs, data, t) ==
    IF IsScrapingEvent(data)
    THEN LET url == url_match(data.output) IN
         IF url # <<>> THEN Append(srcs, AttemptRecord(url, t)) ELSE srcs
    ELSE IF IsSelectionEvent(data) THEN HandleSelection(srcs, data, t)
    ELSE srcs

\* Mutant of HandleLogs: the attempt log of a recorded URL resets its record.
HandleLogsResets(srcs, data, t) ==
    IF IsScrapingEvent(data)
    THEN LET url == url_match(data.output) IN
         IF url = <<>> THEN srcs
         ELSE IF HasUrl(srcs, url)
         THEN [k \in 1..Len(srcs) |->
                  IF srcs[k].url = url THEN AttemptRecord(url, srcs[k].scraped_at)
                  ELSE srcs[k]]
         ELSE Append(srcs, AttemptRecord(url, t))
    ELSE IF IsSelectionEvent(data) THEN HandleSelection(srcs, data, t)
    ELSE srcs

\* Lines 56-106: a "logs" message.
HandleLogs(srcs, data, t) ==
    IF IsScrapingEvent(data)
    THEN LET url == url_match(data.output) IN
         IF url # <<>> /\ ~HasUrl(srcs, url)
         THEN Append(srcs, AttemptRecord(url, t))
         ELSE srcs
    ELSE IF IsSelectionEvent(data) THEN HandleSelection(srcs, data, t)
    ELSE srcs

\* Mutant of HandleScrapedData: the summary overwrites the recorded sites.
RECURSIVE ScrapedDataOverwrites(_, _, _)
ScrapedDataOverwrites(srcs, sites, t) ==
    IF sites = <<>> THEN srcs
    ELSE LET site == Head(sites)
             rec == FullRecord(site.url, site.used, site.skip_reason, site.title,
                               site.content_length, t)
         IN  ScrapedDataOverwrites(
                 IF HasUrl(srcs, site.url)
                 THEN [k \in 1..Len(srcs) |-> IF srcs[k].url = site.url THEN rec ELSE srcs[k]]
                 ELSE Append(srcs, rec),
                 Tail(sites), t)

\* Lines 109-121: a "scraped_data" message adds the sites not yet recorded.
RECURSIVE HandleScrapedData(_, _, _)
HandleScrapedData(srcs, sites, t) ==
    IF sites = <<>> THEN srcs
    ELSE LET site == Head(sites) IN
         HandleScrapedData(
             IF site.url # <<>> /\ ~HasUrl(srcs, site.url)
             THEN Append(srcs, FullRecord(site.url, site.used, site.skip_reason,
                                          site.title, site.content_length, t))
             ELSE srcs,
             Tail(sites), t)

\* Lines 124-147: a "source_update" message updates the first record of the
\* URL in place, or appends a record.
\* Mutant of UpdateRecord: only used and skip_reason are written.
UpdateRecordUsedOnly(source, data) ==
    [source EXCEPT !.used = data.used, !.skip_reason = data.skip_reason]

UpdateRecord(source, data) ==
    [source EXCEPT !.used = data.used, !.skip_reason = data.skip_reason,
                   !.title = data.title, !.content_length = data.content_length,
                   !.keys = @ \cup {"title", "content_length"}]

\* Mutant of HandleSourceUpdate: the record is appended without looking it up.
SourceUpdateAppends(srcs, data, t) ==
    IF data.url = <<>> THEN srcs
    ELSE Append(srcs, FullRecord(data.url, data.used, data.skip_reason, data.title,
                                 data.content_length, t))

\* Mutant of HandleSourceUpdate: a record found is replaced by a new one.
SourceUpdateReplaces(srcs, data, t) ==
    IF data.url = <<>> THEN srcs
    ELSE LET new == FullRecord(data.url, data.used, data.skip_reason, data.title,
                               data.content_length, t)
         IN  IF HasUrl(srcs, data.url)
             THEN [srcs EXCEPT ![SetMin({j \in 1..Len(srcs) : srcs[j].url = data.url})] = new]
             ELSE Append(srcs, new)

HandleSourceUpdate(srcs, data, t) ==
    IF data.url = <<>> THEN srcs
    ELSE IF HasUrl(srcs, data.url)
    THEN LET k == SetMin({j \in 1..Len(srcs) : srcs[j].url = data.url}) IN
         [srcs EXCEPT ![k] = UpdateRecord(srcs[k], data)]
    ELSE Append(srcs, FullRecord(data.url, data.used, data.skip_reason, data.title,
                                 data.content_length, t))

\* data.get('type')
TypeOf(data) == IF "type" \in DOMAIN data THEN data.type ELSE "None"

\* Lines 154-156: any other message updates the content section key by key.
HandleOther(srcs, data) == IF "sources" \in DOMAIN data THEN data.sources ELSE srcs

\* The sources list after send_json(data) at time t.
send_json(srcs, data, t) ==
    CASE TypeOf(data) = "logs" -> HandleLogs(srcs, data, t)
      [] TypeOf(data) = "scraped_data" -> HandleScrapedData(srcs, data.scraped_sites, t)
      [] TypeOf(data) = "source_update" -> HandleSourceUpdate(srcs, data, t)
      [] TypeOf(data) = "curator_decisions" -> srcs
      [] OTHER -> HandleOther(srcs, data)

\* Line 41: the curator_decisions of a new log file; no message yet.
NoDecisions == <<>>
NoMsg == [type |-> "none"]

\* Mutant of MergeDecisions: the event's decisions replace the logged ones.
ReplaceDecisions(decisions, new) == new

\* Lines 150-152: dict.update of content.curator_decisions.
MergeDecisions(decisions, new) ==
    [url \in DOMAIN decisions \cup DOMAIN new |->
        IF url \in DOMAIN new THEN new[url] ELSE decisions[url]]

\* content.curator_decisions after send_json(data).
DecisionsAfter(decisions, data) ==
    CASE TypeOf(data) = "curator_decisions" -> MergeDecisions(decisions, data.decisions)
      [] TypeOf(data) \in {"logs", "scraped_data", "source_update"} -> decisions
      [] OTHER -> IF "curator_decisions" \in DOMAIN data THEN data.curator_decisions
                  ELSE decisions

\* The events list grows by one for each "logs" message (lines 56-61).
EventsAfter(n, data) == IF TypeOf(data) = "logs" THEN n + 1 ELSE n

(***************************************************************************)
(* WorkerPool: a counting gate of max_workers slots and an executor of     *)
(* max_workers threads.                                                    *)
(***************************************************************************)
PoolSlots(n) == n
CanAcquire(free) == free > 0
AfterAcquire(free) == free - 1
AfterRelease(free) == free + 1
ThreadFree(busy, n) == busy < n

(***************************************************************************)
(* Scraper.run and Scraper.extract_data_from_url.                          *)
(***************************************************************************)
NotFetched == [content |-> None, title |-> NoTitle, exc |-> ""]
NoResult == [url |-> <<>>, raw_content |-> None, title |-> NoTitle]

\* Mutant of Catches: get_scraper is called outside the try block.
CatchesBackendOnly(exc) == exc # ScraperNotFound

\* Line 183: `except Exception` catches every exception of the attempt.
Catches(exc) == TRUE

\* How a call of websocket.send_json can end: a handler that forwards to a
\* client websocket raises when that send raises, before it touches the log.
SendOutcomes == IF websocket = "handler_ws" THEN BOOLEAN ELSE {TRUE}

\* websocket.send_json(data) by task i, inside `if self.websocket: try: ...`.
Send(i, data, ok) ==
    IF websocket = "None"
    THEN UNCHANGED <<sources, events, now, sent, baseline>>
    ELSE /\ sent' = [sent EXCEPT ![i] = Append(@, data.type)]
         /\ now' = now + 1
         /\ baseline' = send_json(baseline, data, now)
         /\ IF ok
            THEN /\ sources' = send_json(sources, data, now)
                 /\ events' = EventsAfter(events, data)
            ELSE UNCHANGED <<sources, events>>

\* Mutant of Return: the slot is not freed.
ReturnKeepingSlot(i, raw_content, title) ==
    /\ result' = [result EXCEPT ![i] =
                     [url |-> urls[i], raw_content |-> raw_content, title |-> title]]
    /\ UNCHANGED semaphore
    /\ pc' = [pc EXCEPT ![i] = "done"]

\* `return {...}` of task i, leaving the `async with` block: the slot is freed.
Return(i, raw_content, title) ==
    /\ result' = [result EXCEPT ![i] =
                     [url |-> urls[i], raw_content |-> raw_content, title |-> title]]
    /\ semaphore' = AfterRelease(semaphore)
    /\ pc' = [pc EXCEPT ![i] = "done"]

\* Where task i goes when its attempt raises exc: to the handler of line 183,
\* or out of the `async with` block and out of the task.
Raised(i, exc) ==
    /\ fetched' = [fetched EXCEPT ![i] = [NotFetched EXCEPT !.exc = exc]]
    /\ IF Catches(exc)
       THEN /\ pc' = [pc EXCEPT ![i] = "except"]
            /\ UNCHANGED semaphore
       ELSE /\ pc' = [pc EXCEPT ![i] = "raised"]
            /\ semaphore' = AfterRelease(semaphore)

\* Mutant of Acquire: the task enters the gated section without taking a slot.
AcquireUngated(i) ==
    /\ pc[i] = "waiting"
    /\ pc' = [pc EXCEPT ![i] = "attempt"]
    /\ UNCHANGED <<cfgVars, poolVars, is_async, fetched, reason, result, sent,
                   logVars, runVars, outsideBatch>>

\* Line 91: `async with self.worker_pool.throttle()` takes a slot, or waits.
Acquire(i) ==
    /\ pc[i] = "waiting"
    /\ CanAcquire(semaphore)
    /\ semaphore' = AfterAcquire(semaphore)
    /\ pc' = [pc EXCEPT ![i] = "attempt"]
    /\ UNCHANGED <<cfgVars, executor, is_async, fetched, reason, result, sent,
                   logVars, runVars, outsideBatch>>

\* Mutant of Attempt: the attempt is not logged.
AttemptUnlogged(i) ==
    /\ pc[i] = "attempt"
    /\ IF get_scraper(urls[i], scraper) = ScraperNotFound
       THEN /\ Raised(i, ScraperNotFound)
            /\ UNCHANGED is_async
       ELSE \E a \in BOOLEAN :
            /\ is_async' = [is_async EXCEPT ![i] = a]
            /\ pc' = [pc EXCEPT ![i] = IF a THEN "scraping" ELSE "queued"]
            /\ UNCHANGED <<fetched, semaphore>>
    /\ UNCHANGED <<cfgVars, executor, reason, result, sent, logVars, runVars, outsideBatch>>

\* Lines 94-117: the attempt log, the choice of the backend and its start.
Attempt(i) ==
    /\ pc[i] = "attempt"
    /\ \E ok \in SendOutcomes : Send(i, AttemptMsg(urls[i]), ok)
    /\ IF get_scraper(urls[i], scraper) = ScraperNotFound
       THEN /\ Raised(i, ScraperNotFound)
            /\ UNCHANGED is_async
       ELSE \E a \in BOOLEAN :
            /\ is_async' = [is_async EXCEPT ![i] = a]
            /\ pc' = [pc EXCEPT ![i] = IF a THEN "scraping" ELSE "queued"]
            /\ UNCHANGED <<fetched, semaphore>>
    /\ UNCHANGED <<cfgVars, executor, reason, result, runVars, outsideBatch>>

\* Lines 115-117: run_in_executor: a free thread of the executor takes scraper.scrape.
ExecutorStart(i) ==
    /\ pc[i] = "queued"
    /\ ThreadFree(executor, max_workers)
    /\ executor' = executor + 1
    /\ pc' = [pc EXCEPT ![i] = "scraping"]
    /\ UNCHANGED <<cfgVars, semaphore, is_async, fetched, reason, result, sent,
                   logVars, runVars, outsideBatch>>

\* Lines 112-125: the backend call ends, with (content, title) or an exception;
\* the content is accepted or rejected and the reason of a rejection computed.
Backend(i) ==
    /\ pc[i] = "scraping"
    /\ \E raised \in BOOLEAN, content \in Contents :
        /\ raised => content = None
        /\ IF raised
           THEN /\ Raised(i, BackendError)
                /\ UNCHANGED reason
           ELSE /\ fetched' = [fetched EXCEPT ![i] =
                       [content |-> content,
                        title |-> IF Falsy(content) THEN NoTitle ELSE TitleOf(urls[i]),
                        exc |-> ""]]
                /\ reason' = [reason EXCEPT ![i] = RejectReason(content)]
                /\ pc' = [pc EXCEPT ![i] = IF Rejected(content) THEN "rejected"
                                           ELSE "accepted"]
                /\ UNCHANGED semaphore
    /\ executor' = IF is_async[i] THEN executor ELSE executor - 1
    /\ UNCHANGED <<cfgVars, is_async, result, sent, logVars, runVars, outsideBatch>>

\* Mutant of Reject: the rejected outcome is returned without its event.
RejectSilently(i) ==
    /\ pc[i] = "rejected"
    /\ Return(i, None, fetched[i].title)
    /\ UNCHANGED <<cfgVars, executor, is_async, fetched, reason, sent, logVars, runVars,
                   outsideBatch>>

\* Lines 127-147: the rejected outcome is logged and returned.
Reject(i) ==
    /\ pc[i] = "rejected"
    /\ \E ok \in SendOutcomes :
          Send(i, SourceUpdateMsg(urls[i], "False", reason[i], fetched[i].title,
                                  ContentLength(fetched[i].content)), ok)
    /\ Return(i, None, fetched[i].title)
    /\ UNCHANGED <<cfgVars, executor, is_async, fetched, reason, runVars, outsideBatch>>

\* Mutant of Accept: the outcome is left to the summary of the batch.
AcceptDeferred(i) ==
    /\ pc[i] = "accepted"
    /\ Return(i, fetched[i].content, fetched[i].title)
    /\ UNCHANGED <<cfgVars, executor, is_async, fetched, reason, sent, logVars, runVars,
                   outsideBatch>>

\* Mutant of Accept: a send that raises is left to the handler of line 183.
AcceptSendUncaught(i) ==
    /\ pc[i] = "accepted"
    /\ \E ok \in SendOutcomes :
        /\ Send(i, SourceUpdateMsg(urls[i], "True", EmptyReason, fetched[i].title,
                                   fetched[i].content), ok)
        /\ IF websocket = "None"
           THEN Return(i, fetched[i].content, fetched[i].title)
           ELSE /\ pc' = [pc EXCEPT ![i] = IF ok THEN "success_log" ELSE "except"]
                /\ UNCHANGED <<result, semaphore>>
    /\ UNCHANGED <<cfgVars, executor, is_async, fetched, reason, runVars, outsideBatch>>

\* Lines 158-167: the accepted outcome is logged; lines 177-181 when there is
\* no websocket or the send raised (the success log is in the same try).
Accept(i) ==
    /\ pc[i] = "accepted"
    /\ \E ok \in SendOutcomes :
        /\ Send(i, SourceUpdateMsg(urls[i], "True", EmptyReason, fetched[i].title,
                                   fetched[i].content), ok)
        /\ IF websocket # "None" /\ ok
           THEN /\ pc' = [pc EXCEPT ![i] = "success_log"]
                /\ UNCHANGED <<result, semaphore>>
           ELSE Return(i, fetched[i].content, fetched[i].title)
    /\ UNCHANGED <<cfgVars, executor, is_async, fetched, reason, runVars, outsideBatch>>

\* Lines 169-181: the success log, and the accepted result is returned.
SuccessLog(i) ==
    /\ pc[i] = "success_log"
    /\ \E ok \in SendOutcomes : Send(i, SuccessMsg(urls[i], fetched[i].content), ok)
    /\ Return(i, fetched[i].content, fetched[i].title)
    /\ UNCHANGED <<cfgVars, executor, is_async, fetched, reason, runVars, outsideBatch>>

\* Lines 183-197: an exception of the attempt is caught and logged; line 207
\* when there is no websocket or the send raised.
Except(i) ==
    /\ pc[i] = "except"
    /\ reason' = [reason EXCEPT ![i] = ScrapingErrorReason(fetched[i].exc)]
    /\ \E ok \in SendOutcomes :
        /\ Send(i, SourceUpdateMsg(urls[i], "False", ScrapingErrorReason(fetched[i].exc),
                                   NoTitle, 0), ok)
        /\ IF websocket # "None" /\ ok
           THEN /\ pc' = [pc EXCEPT ![i] = "error_log"]
                /\ UNCHANGED <<result, semaphore>>
           ELSE Return(i, None, NoTitle)
    /\ UNCHANGED <<cfgVars, executor, is_async, fetched, runVars, outsideBatch>>

\* Lines 199-207: the error log, and the rejected result is returned.
ErrorLog(i) ==
    /\ pc[i] = "error_log"
    /\ \E ok \in SendOutcomes : Send(i, ErrorMsg(urls[i], fetched[i].exc), ok)
    /\ Return(i, None, NoTitle)
    /\ UNCHANGED <<cfgVars, executor, is_async, fetched, reason, runVars, outsideBatch>>

\* Line 49: the entries of contents whose raw_content is not None.
Present(content) == content.raw_content # None
\* Mutant of FilterContents: nothing is filtered out.
FilterNothing(cs) == cs

FilterContents(cs) == SelectSeq(cs, Present)

\* Lines 55-76: the entry of the batch summary for one entry of contents.
ScrapedSite(content) ==
    LET raw_content == content.raw_content
        used == raw_content # None /\ raw_content >= MinContentLength
    IN  [url |-> content.url,
         used |-> IF used THEN "True" ELSE "False",
         skip_reason |-> IF used THEN EmptyReason
                         ELSE IF raw_content = None THEN SummaryFailedReason
                         ELSE TooShortReason(raw_content),
         title |-> content.title,
         content_length |-> IF Falsy(raw_content) THEN 0 ELSE raw_content]

scraped_sites(cs) == [k \in 1..Len(cs) |-> ScrapedSite(cs[k])]

\* Mutant of Gather: run goes on as soon as one task has returned.
GatherFirst ==
    /\ runPc = "gather"
    /\ \E i \in Tasks : pc[i] = "done"
    /\ contents' = [i \in Tasks |-> result[i]]
    /\ res' = FilterContents([i \in Tasks |-> result[i]])
    /\ runPc' = "summary"
    /\ UNCHANGED <<cfgVars, poolVars, taskVars, logVars, outsideBatch>>

\* Mutant of Gather: the results come in the reverse of the input order.
GatherReversed ==
    /\ runPc = "gather"
    /\ IF \E i \in Tasks : pc[i] = "raised"
       THEN /\ runPc' = "raised"
            /\ UNCHANGED <<contents, res>>
       ELSE /\ \A i \in Tasks : pc[i] = "done"
            /\ contents' = [i \in Tasks |-> result[Len(urls) + 1 - i]]
            /\ res' = FilterContents([i \in Tasks |-> result[Len(urls) + 1 - i]])
            /\ runPc' = "summary"
    /\ UNCHANGED <<cfgVars, poolVars, taskVars, logVars, outsideBatch>>

\* Lines 45-49: gather returns when every task of the batch has returned, and
\* raises as soon as one task has raised.
Gather ==
    /\ runPc = "gather"
    /\ IF \E i \in Tasks : pc[i] = "raised"
       THEN /\ runPc' = "raised"
            /\ UNCHANGED <<contents, res>>
       ELSE /\ \A i \in Tasks : pc[i] = "done"
            /\ contents' = [i \in Tasks |-> result[i]]
            /\ res' = FilterContents([i \in Tasks |-> result[i]])
            /\ runPc' = "summary"
    /\ UNCHANGED <<cfgVars, poolVars, taskVars, logVars, outsideBatch>>

\* Lines 52-85: the batch summary is sent when there is a websocket; run returns.
Summary ==
    /\ runPc = "summary"
    /\ IF websocket = "None"
       THEN UNCHANGED <<sources, events, now, baseline>>
       ELSE /\ now' = now + 1
            /\ baseline' = send_json(baseline, ScrapedDataMsg(scraped_sites(contents)), now)
            /\ \E ok \in SendOutcomes :
                 IF ok
                 THEN /\ sources' = send_json(sources, ScrapedDataMsg(scraped_sites(contents)), now)
                      /\ events' = EventsAfter(events, ScrapedDataMsg(scraped_sites(contents)))
                 ELSE UNCHANGED <<sources, events>>
    /\ runPc' = "returned"
    /\ UNCHANGED <<cfgVars, poolVars, taskVars, contents, res, outsideBatch>>

BatchNext ==
    \/ \E i \in Tasks : Acquire(i)
    \/ \E i \in Tasks : Attempt(i)
    \/ \E i \in Tasks : ExecutorStart(i)
    \/ \E i \in Tasks : Backend(i)
    \/ \E i \in Tasks : Reject(i)
    \/ \E i \in Tasks : Accept(i)
    \/ \E i \in Tasks : SuccessLog(i)
    \/ \E i \in Tasks : Except(i)
    \/ \E i \in Tasks : ErrorLog(i)
    \/ Gather
    \/ Summary

\* The state of a Scraper built over a batch, before run is called.
InitBatchOver(links, n, listeners) ==
    /\ urls \in SeqsUpTo(links, n)
    /\ scraper \in ScraperKeys
    /\ max_workers \in 1..MaxWorkers
    /\ websocket \in listeners
    /\ semaphore = PoolSlots(max_workers)
    /\ executor = 0
    /\ pc = [i \in Tasks |-> "waiting"]
    /\ is_async = [i \in Tasks |-> FALSE]
    /\ fetched = [i \in Tasks |-> NotFetched]
    /\ reason = [i \in Tasks |-> EmptyReason]
    /\ result = [i \in Tasks |-> NoResult]
    /\ sent = [i \in Tasks |-> <<>>]
    /\ sources = <<>>
    /\ events = 0
    /\ now = 0
    /\ baseline = <<>>
    /\ log_decisions = NoDecisions /\ last_msg = NoMsg
    /\ runPc = "gather"
    /\ contents = <<>>
    /\ res = <<>>

InitBatch(listeners) == InitBatchOver(Urls, MaxBatch, listeners)

(***************************************************************************)
(* SourceCurator.curate_sources.                                           *)
(***************************************************************************)
\* A URL the ranking service may return that no candidate has.
UrlInvented == <<"https://", "b.test", "/new">>

\* An element of a source list: a dict with a url, a dict with no (or an
\* empty) url, or something that is no dict.
Item(is_dict, url) == [is_dict |-> is_dict, url |-> url]
SourceItems == {Item(TRUE, u) : u \in Urls \cup {<<>>}} \cup {Item(FALSE, <<>>)}
ResponseItems == {Item(TRUE, u) : u \in Urls \cup {UrlInvented, <<>>}} \cup {Item(FALSE, <<>>)}

\* How the ranking call can end: it raises; its text is no JSON; its JSON is a
\* number or null (no len); its JSON is an object or a string (iterable, with
\* no dict among its elements); its JSON is a list.
NoResponse == [kind |-> "none", items |-> <<>>]
Responses ==
    {[kind |-> k, items |-> <<>>] : k \in {"raise", "invalid", "scalar", "object"}}
    \cup {[kind |-> "list", items |-> items] : items \in SeqsUpTo(ResponseItems, MaxCurated)}

\* isinstance(item, dict) and item.get('url')
HasUrlKey(item) == item.is_dict /\ item.url # <<>>

\* Line 44: the keys of url_to_source.
url_to_source(data) == {data[k].url : k \in {j \in 1..Len(data) : HasUrlKey(data[j])}}

\* Lines 64-67: the URLs of the dicts of the returned list.
kept_urls(curated_sources) ==
    {curated_sources[k].url :
        k \in {j \in 1..Len(curated_sources) : HasUrlKey(curated_sources[j])}}

SelectedReason == "Selected by LLM curator as relevant and credible"
RejectedReason ==
    "Rejected by LLM curator - insufficient relevance, credibility, or quality"
FailedReason == "Curation failed - source included by default"

\* Mutant of Decisions: the decisions are recorded for the returned sources.
DecisionsOfReturned(data, curated_sources) ==
    [url \in kept_urls(curated_sources) |-> [kept |-> TRUE, reason |-> SelectedReason]]

\* Lines 70-80: one decision for every key of url_to_source.
Decisions(data, curated_sources) ==
    [url \in url_to_source(data) |->
        IF url \in kept_urls(curated_sources)
        THEN [kept |-> TRUE, reason |-> SelectedReason]
        ELSE [kept |-> FALSE, reason |-> RejectedReason]]

\* Lines 103-108: every source with a url is kept by default.
DefaultDecisions(data) ==
    [url \in url_to_source(data) |-> [kept |-> TRUE, reason |-> FailedReason]]

\* Line 17: the default of max_results.
DefaultMaxResults == 50

\* Mutant of CuratedSources: the list is cut to max_results sources.
CuratedSourcesCapped(curated_sources, max) ==
    SubSeq(curated_sources, 1, IF Len(curated_sources) < max THEN Len(curated_sources) ELSE max)

\* Lines 50-51, 60 and 90: max_results goes into the prompt; the parsed list is
\* returned as the service gave it.
CuratedSources(curated_sources, max) == curated_sources

\* Whether lines 46-61 raise: the call, json.loads, or len() of the value.
CurationRaises(r) == r.kind \in {"raise", "invalid", "scalar"}

\* stream_output("logs", "research_plan", ..) when verbose: one more event in
\* the log of an attached handler.
StreamOutput == events' = IF verbose /\ websocket # "None" THEN events + 1 ELSE events

\* Lines 31-58: the candidates are indexed and the ranking call is awaited.
CurateCall ==
    /\ curatePc = "start"
    /\ StreamOutput
    /\ curatePc' = "awaiting"
    /\ UNCHANGED <<cfgVars, poolVars, taskVars, sources, now, baseline, runVars, source_data,
                   max_results,
                   response, curated, curator_decisions, verbose, detailedVars, serverVars, fileVars, connVars>>

\* Lines 60-110: the call ends; the decisions are recorded and returned.
CurateReturn ==
    /\ curatePc = "awaiting"
    /\ \E r \in Responses :
        /\ response' = r
        /\ IF CurationRaises(r)
           THEN /\ curated' = [kind |-> "source_data", items |-> source_data]
                /\ curator_decisions' = DefaultDecisions(source_data)
           ELSE /\ curated' = [r EXCEPT !.items = CuratedSources(@, max_results)]
                /\ curator_decisions' = Decisions(source_data, curated'.items)
    /\ StreamOutput
    /\ curatePc' = "returned"
    /\ UNCHANGED <<cfgVars, poolVars, taskVars, sources, now, baseline, runVars, source_data,
                   max_results,
                   verbose, detailedVars, serverVars, fileVars, connVars>>

CuratorNext == CurateCall \/ CurateReturn

\* No curation in progress.
CuratorIdle ==
    /\ source_data = <<>>
    /\ max_results = DefaultMaxResults
    /\ response = NoResponse
    /\ curatePc = "idle"
    /\ curated = NoResponse
    /\ curator_decisions = <<>>
    /\ verbose = FALSE

\* No fetch batch in progress.
BatchIdle ==
    /\ urls = <<>>
    /\ scraper = "bs"
    /\ max_workers = 1
    /\ semaphore = PoolSlots(1)
    /\ executor = 0
    /\ pc = <<>> /\ is_async = <<>> /\ fetched = <<>> /\ reason = <<>>
    /\ result = <<>> /\ sent = <<>>
    /\ sources = <<>> /\ events = 0 /\ now = 0 /\ baseline = <<>>
    /\ log_decisions = NoDecisions /\ last_msg = NoMsg
    /\ runPc = "idle" /\ contents = <<>> /\ res = <<>>

(***************************************************************************)
(* DetailedReport (backend/report_type/detailed_report/detailed_report.py). *)
(* GPTResearcher is used through its calls: each may return or raise, and  *)
(* streams its progress to its own websocket when it is verbose.           *)
(***************************************************************************)
\* Text chunks a research pass can end with in its context.
Chunks == {"chunk1", "chunk2"}

CompletionOutput == "Detailed research report generated successfully!"

\* What a verbose GPTResearcher with a websocket adds to the messages of the
\* client during the call `call`.
Stream(ws, verb, call, msgs) ==
    IF ws # "None" /\ verb THEN Append(msgs, [type |-> "logs", output |-> call]) ELSE msgs

\* How gpt_researcher.get_subtopics can end: it raises; it returns None, an
\* empty list, a non-empty value with no attribute `subtopics`, or an object
\* whose subtopics list has n entries.
SubtopicsData ==
    {[kind |-> k, n |-> 0] : k \in {"raise", "None", "empty_list", "plain_list"}}
    \cup {[kind |-> "object", n |-> n] : n \in 0..MaxSubtopics}

NoData == [kind |-> "none", n |-> 0]

\* Lines 123-126: the call raises, or the attribute lookup of line 126 does.
SubtopicsRaises(data) == data.kind \in {"raise", "plain_list"}

\* Mutant of all_subtopics: data with no list yields one subtopic for the query.
all_subtopicsDefault(data) ==
    IF data.kind = "object" /\ data.n > 0 THEN [k \in 1..data.n |-> [task |-> k]]
    ELSE <<[task |-> 1]>>

\* Lines 125-132.
all_subtopics(data) ==
    IF data.kind = "object" THEN [k \in 1..data.n |-> [task |-> k]] ELSE <<>>

\* A subtopic report: "" or the text written for the task.
EmptyReport == <<>>
ReportOf(task) == <<"report of", task>>
extract_sections(subtopic_report) ==
    IF subtopic_report = EmptyReport THEN <<>> ELSE <<<<"section of", subtopic_report[2]>>>>
extract_headers(subtopic_report) ==
    IF subtopic_report = EmptyReport THEN <<>> ELSE <<<<"header of", subtopic_report[2]>>>>
table_of_contents(report_body) ==
    [k \in 1..Len(report_body) |-> <<"header of", report_body[k][2]>>]

NoAssistant == [task |-> 0, websocket |-> "None", verbose |-> FALSE, context |-> {},
                visited_urls |-> {}]
NoOriginal == [ws |-> "None", verbose |-> FALSE]
NoReport == [introduction |-> "", toc |-> <<>>, body |-> <<>>, conclusion |-> "",
             references |-> {}]
NoParts == [introduction |-> "", body |-> <<>>, report |-> NoReport]

\* Lines 156-174: the assistant of a subtopic, with a copy of the merged context.
SubtopicAssistant(subtopic, context, visited) ==
    [task |-> subtopic.task, websocket |-> "None", verbose |-> FALSE, context |-> context,
     visited_urls |-> visited]

\* run ends with the exception of `call`.
RunRaises(call) ==
    /\ drPc' = "raised"
    /\ drExc' = call

\* Lines 139-140 and 147-177, or lines 93-96 and 210-211 after the last
\* subtopic: the pass of subtopic k starts, or the conclusion is written.
NextPass(k, context, visited) ==
    IF k <= Len(subtopics)
    THEN /\ current' = k
         /\ assistant' = SubtopicAssistant(subtopics[k], context, visited)
         /\ drPc' = "sub_research"
    ELSE /\ current' = 0
         /\ assistant' = NoAssistant
         /\ drPc' = "conclusion"

\* Lines 73 and 115-119: the initial research of the top-level researcher.
InitialResearch ==
    /\ drPc = "initial"
    /\ client' = Stream(gr_websocket, gr_verbose, "conduct_research", client)
    /\ \/ /\ RunRaises("conduct_research")
          /\ UNCHANGED <<global_context, global_urls, visited_in_run>>
       \/ /\ \E context \in SUBSET Chunks, visited_urls \in SUBSET Urls :
                /\ global_context' = context
                /\ global_urls' = visited_urls
                /\ visited_in_run' = visited_urls
          /\ drPc' = "subtopics"
          /\ UNCHANGED drExc
    /\ UNCHANGED <<batchVars, curatorVars, serverVars, fileVars, connVars,
                   subtopics_data, dr_websocket, gr_websocket, gr_verbose, original,
                   subtopics, current, assistant, global_written_sections,
                   existing_headers, report_parts>>

\* Mutant of GetAllSubtopics: the top-level researcher is not silenced.
GetAllSubtopicsLoud ==
    /\ drPc = "subtopics"
    /\ client' = Stream(gr_websocket, gr_verbose, "get_subtopics", client)
    /\ \E data \in SubtopicsData :
         /\ subtopics_data' = data
         /\ IF SubtopicsRaises(data)
            THEN /\ RunRaises("get_subtopics")
                 /\ UNCHANGED <<subtopics, original>>
            ELSE /\ subtopics' = all_subtopics(data)
                 /\ original' = [ws |-> gr_websocket, verbose |-> gr_verbose]
                 /\ drPc' = "introduction"
                 /\ UNCHANGED drExc
    /\ UNCHANGED <<batchVars, curatorVars, serverVars, fileVars, connVars,
                   dr_websocket, gr_websocket, gr_verbose, current,
                   assistant, global_context, global_urls, global_written_sections,
                   existing_headers, report_parts, visited_in_run>>

\* Lines 76-87 and 121-132: the subtopics are listed, the top-level researcher
\* is silenced and the introduction is asked for.
GetAllSubtopics ==
    /\ drPc = "subtopics"
    /\ client' = Stream(gr_websocket, gr_verbose, "get_subtopics", client)
    /\ \E data \in SubtopicsData :
         /\ subtopics_data' = data
         /\ IF SubtopicsRaises(data)
            THEN /\ RunRaises("get_subtopics")
                 /\ UNCHANGED <<subtopics, original, gr_websocket, gr_verbose>>
            ELSE /\ subtopics' = all_subtopics(data)
                 /\ original' = [ws |-> gr_websocket, verbose |-> gr_verbose]
                 /\ gr_websocket' = "None"
                 /\ gr_verbose' = FALSE
                 /\ drPc' = "introduction"
                 /\ UNCHANGED drExc
    /\ UNCHANGED <<batchVars, curatorVars, serverVars, fileVars, connVars,
                   dr_websocket, current, assistant, global_context,
                   global_urls, global_written_sections, existing_headers, report_parts,
                   visited_in_run>>

\* Lines 87-90: the introduction is written; the first pass starts.
WriteIntroduction ==
    /\ drPc = "introduction"
    /\ client' = Stream(gr_websocket, gr_verbose, "write_introduction", client)
    /\ \/ /\ RunRaises("write_introduction")
          /\ UNCHANGED <<current, assistant, report_parts>>
       \/ /\ report_parts' = [report_parts EXCEPT !.introduction = "introduction"]
          /\ NextPass(1, global_context, global_urls)
          /\ UNCHANGED drExc
    /\ UNCHANGED <<batchVars, curatorVars, serverVars, fileVars, connVars,
                   subtopics_data, dr_websocket, gr_websocket, gr_verbose, original,
                   subtopics, global_context, global_urls, global_written_sections,
                   existing_headers, visited_in_run>>

\* Line 166: the assistant is handed the set object global_urls itself.  The
\* URLs its research visits are added to that object in place, or to a set of
\* its own when the assistant does not keep the object it was given.
VisitedInPlace(visited, visited_urls, in_place) ==
    IF in_place THEN visited \cup visited_urls ELSE visited

\* Lines 166 and 177: the research of the subtopic assistant.
SubtopicResearch ==
    /\ drPc = "sub_research"
    /\ client' = Stream(assistant.websocket, assistant.verbose, "subtopic conduct_research",
                       client)
    /\ \/ /\ RunRaises("subtopic conduct_research")
          /\ UNCHANGED <<assistant, global_urls, visited_in_run>>
       \/ /\ \E context \in SUBSET Chunks, visited_urls \in SUBSET Urls, in_place \in BOOLEAN :
                /\ global_urls' = VisitedInPlace(global_urls, visited_urls, in_place)
                /\ visited_in_run' = visited_in_run \cup visited_urls
                /\ assistant' = [assistant EXCEPT
                                    !.context = context,
                                    !.visited_urls = IF in_place THEN global_urls'
                                                     ELSE visited_urls]
          /\ drPc' = "sub_write"
          /\ UNCHANGED drExc
    /\ UNCHANGED <<batchVars, curatorVars, serverVars, fileVars, connVars,
                   subtopics_data, dr_websocket, gr_websocket, gr_verbose, original,
                   subtopics, current, global_context, global_written_sections,
                   existing_headers, report_parts>>

\* Lines 196-199: the results of the pass are folded into the shared state.
FoldContext(context, assistant_context) == assistant_context
\* Mutant of FoldUrls: the URLs of the pass are not merged.
FoldUrlsKeep(visited, assistant_urls) == visited

\* Mutant of FoldUrls: the URLs of the pass replace the merged set.
FoldUrlsReplace(visited, assistant_urls) == assistant_urls

FoldUrls(visited, assistant_urls) == visited \cup assistant_urls

\* Mutant of AddToBody: the report of a pass joins the body even when empty.
AddToBodyAlways(report_body, subtopic_report) == Append(report_body, subtopic_report)

\* Lines 141-143: a pass with a report adds it to the body.
AddToBody(report_body, subtopic_report) ==
    IF subtopic_report # EmptyReport THEN Append(report_body, subtopic_report)
    ELSE report_body

\* Mutant of AppendHeaders: a pass with an empty report leaves no entry.
AppendHeadersNonEmpty(headers, task, subtopic_report) ==
    IF subtopic_report = EmptyReport THEN headers
    ELSE Append(headers, [task |-> task, headers |-> extract_headers(subtopic_report)])

\* Mutant of AppendHeaders: the entry of the pass is put first.
AppendHeadersFront(headers, task, subtopic_report) ==
    <<[task |-> task, headers |-> extract_headers(subtopic_report)]>> \o headers

\* Lines 201-204: the headers of the pass join the history.
AppendHeaders(headers, task, subtopic_report) ==
    Append(headers, [task |-> task, headers |-> extract_headers(subtopic_report)])

\* Lines 180-206 and 141-143: the report of the subtopic is written and folded.
SubtopicReport ==
    /\ drPc = "sub_write"
    /\ client' = Stream(assistant.websocket, assistant.verbose, "subtopic write_report", client)
    /\ \/ /\ RunRaises("subtopic write_report")
          /\ UNCHANGED <<current, assistant, global_context, global_urls,
                         global_written_sections, existing_headers, report_parts>>
       \/ /\ \E subtopic_report \in {EmptyReport, ReportOf(assistant.task)} :
                /\ global_written_sections' =
                       global_written_sections \o extract_sections(subtopic_report)
                /\ existing_headers' =
                       AppendHeaders(existing_headers, assistant.task, subtopic_report)
                /\ report_parts' =
                       [report_parts EXCEPT !.body = AddToBody(@, subtopic_report)]
          /\ global_context' = FoldContext(global_context, assistant.context)
          /\ global_urls' = FoldUrls(global_urls, assistant.visited_urls)
          /\ NextPass(current + 1, global_context', global_urls')
          /\ UNCHANGED drExc
    /\ UNCHANGED <<batchVars, curatorVars, serverVars, fileVars, connVars,
                   subtopics_data, dr_websocket, gr_websocket, gr_verbose, original,
                   subtopics, visited_in_run>>

\* Lines 210-214: the document.
DetailedReportOf(introduction, report_body, visited_urls) ==
    [introduction |-> introduction, toc |-> table_of_contents(report_body),
     body |-> report_body, conclusion |-> "conclusion", references |-> visited_urls]

\* Lines 96-104 and 208-215: the conclusion is written, the report is built
\* and the top-level researcher gets its websocket back.
ConstructDetailedReport ==
    /\ drPc = "conclusion"
    /\ client' = Stream(gr_websocket, gr_verbose, "write_report_conclusion", client)
    /\ \/ /\ RunRaises("write_report_conclusion")
          /\ UNCHANGED <<gr_websocket, gr_verbose, report_parts>>
       \/ /\ report_parts' =
                [report_parts EXCEPT !.report =
                    DetailedReportOf(report_parts.introduction, report_parts.body,
                                     global_urls)]
          /\ gr_websocket' = original.ws
          /\ gr_verbose' = original.verbose
          /\ drPc' = IF dr_websocket # "None" THEN "send_log" ELSE "returned"
          /\ UNCHANGED drExc
    /\ UNCHANGED <<batchVars, curatorVars, serverVars, fileVars, connVars,
                   subtopics_data, dr_websocket, original, subtopics, current,
                   assistant, global_context, global_urls, global_written_sections,
                   existing_headers, visited_in_run>>

\* Lines 104-107: the completion log.
SendCompletionLog ==
    /\ drPc = "send_log"
    /\ client' = Append(client, [type |-> "logs", output |-> CompletionOutput])
    /\ drPc' = "send_report"
    /\ UNCHANGED <<batchVars, curatorVars, serverVars, fileVars, connVars,
                   subtopics_data, dr_websocket, gr_websocket, gr_verbose, original,
                   subtopics, current, assistant, global_context, global_urls,
                   global_written_sections, existing_headers, report_parts, drExc, visited_in_run>>

\* Lines 108-113: the report is sent; run returns it.
SendReport ==
    /\ drPc = "send_report"
    /\ client' = Append(client, [type |-> "report", output |-> report_parts.report])
    /\ drPc' = "returned"
    /\ UNCHANGED <<batchVars, curatorVars, serverVars, fileVars, connVars,
                   subtopics_data, dr_websocket, gr_websocket, gr_verbose, original,
                   subtopics, current, assistant, global_context, global_urls,
                   global_written_sections, existing_headers, report_parts, drExc, visited_in_run>>

DetailedNext ==
    \/ InitialResearch
    \/ GetAllSubtopics
    \/ WriteIntroduction
    \/ SubtopicResearch
    \/ SubtopicReport
    \/ ConstructDetailedReport
    \/ SendCompletionLog
    \/ SendReport

\* No detailed report in progress.
DetailedIdle ==
    /\ drPc = "idle"
    /\ dr_websocket = "None" /\ gr_websocket = "None" /\ gr_verbose = FALSE
    /\ original = NoOriginal
    /\ subtopics_data = NoData
    /\ subtopics = <<>> /\ current = 0 /\ assistant = NoAssistant
    /\ global_context = {} /\ global_urls = {}
    /\ global_written_sections = <<>> /\ existing_headers = <<>>
    /\ report_parts = NoParts
    /\ client = <<>>
    /\ drExc = ""
    /\ visited_in_run = {}

(***************************************************************************)
(* The messages a CustomLogsHandler receives in a run, in any order.       *)
(***************************************************************************)
\* Lines 268-276 of handle_start_command: the first message to a new handler.
StartMsg(task) == [query |-> task, sources |-> <<>>, context |-> <<>>, report |-> ""]

SelectedMsg(link) == LogsMsg("source_selected", <<"Selected source: ">> \o link)
RejectedMsg(link) ==
    LogsMsg("source_rejected", <<"Rejected source: ">> \o link \o <<" - ", "low relevance">>)
PlanMsg == LogsMsg("research_plan", <<"Evaluating and curating sources">>)
CuratorDecisionsMsg(decisions) == [type |-> "curator_decisions", decisions |-> decisions]
ReportMsg == [type |-> "report", output |-> <<"report">>]

\* The outcome events of a URL and the entries of a batch summary.
SourceUpdates(link) ==
    {SourceUpdateMsg(link, "True", EmptyReason, TitleOf(link), 100),
     SourceUpdateMsg(link, "False", TooShortReason(99), TitleOf(link), 99),
     SourceUpdateMsg(link, "False", ScrapingErrorReason(BackendError), NoTitle, 0)}
SummarySites ==
    {ScrapedSite([url |-> link, raw_content |-> raw_content, title |-> TitleOf(link)]) :
        link \in Urls, raw_content \in {None, 100}}

\* One call of send_json on the handler of the log.
\* Mutant of LogSend: the call returns without the write of lines 158-160.
LogSendUnsaved(data) ==
    /\ runPc = "idle" /\ websocket = "handler"
    /\ now < MaxEvents
    /\ last_msg' = data
    /\ now' = now + 1
    /\ UNCHANGED <<sources, baseline, events, log_decisions>>
    /\ UNCHANGED <<cfgVars, poolVars, taskVars, runVars, curatorVars, detailedVars, serverVars,
                   connVars>>

LogSend(data) ==
    /\ runPc = "idle" /\ websocket = "handler"
    /\ now < MaxEvents
    /\ sources' = send_json(sources, data, now)
    /\ baseline' = send_json(baseline, data, now)
    /\ events' = EventsAfter(events, data)
    /\ log_decisions' = DecisionsAfter(log_decisions, data)
    /\ last_msg' = data
    /\ now' = now + 1
    /\ UNCHANGED <<cfgVars, poolVars, taskVars, runVars, curatorVars, detailedVars, serverVars,
                   connVars>>

\* handle_start_command sends StartMsg right after it created the handler.
LogStart == now = 0 /\ LogSend(StartMsg("task"))

LogNext ==
    \/ LogStart
    \/ \E link \in Urls : LogSend(AttemptMsg(link))
    \/ \E link \in Urls : LogSend(SuccessMsg(link, 100))
    \/ \E link \in Urls : LogSend(ErrorMsg(link, BackendError))
    \/ \E link \in Urls : LogSend(SelectedMsg(link))
    \/ \E link \in Urls : LogSend(RejectedMsg(link))
    \/ LogSend(PlanMsg)
    \/ \E link \in Urls : \E data \in SourceUpdates(link) : LogSend(data)
    \/ \E scraped \in SeqsUpTo(SummarySites, 2) : LogSend(ScrapedDataMsg(scraped))
    \/ \E decided \in SUBSET Urls : \E kept \in BOOLEAN :
           LogSend(CuratorDecisionsMsg(
               [url \in decided |-> [kept |-> kept, reason |-> FailedReason]]))
    \/ LogSend(ReportMsg)

(***************************************************************************)
(* handle_start_command, run as a task by run_long_running_task            *)
(* (backend/server/server_utils.py).                                       *)
(***************************************************************************)
NoCommand == [task |-> "", report_type |-> ""]
Commands == {[task |-> t, report_type |-> r] : t \in {"", "task"}, r \in {"", "detailed_report"}}

\* Lines 259-265 and 489-495: the error notifications.
MissingMsg == [type |-> "logs", content |-> "error", output |-> "Missing required parameters"]
ErrorNotice(e) == [type |-> "logs", content |-> "error", output |-> e]
PathMsg == [type |-> "path", output |-> "file_paths"]

\* Lines 243-278: the command is checked; the handler of the log is created
\* and gets its first message, which it forwards to the client; the report is
\* asked of manager.start_streaming, which runs DetailedReport.run.
HandleStartCommand ==
    /\ taskPc = "start"
    /\ IF command.task = "" \/ command.report_type = ""
       THEN /\ client' = Append(client, MissingMsg)
            /\ taskPc' = "done"
            /\ UNCHANGED <<drPc, logVars, fileVars>>
       ELSE /\ client' = Append(client, StartMsg(command.task))
            /\ sources' = send_json(<<>>, StartMsg(command.task), now)
            /\ log_decisions' = NoDecisions
            /\ last_msg' = StartMsg(command.task)
            /\ baseline' = send_json(<<>>, StartMsg(command.task), now)
            /\ events' = 0
            /\ now' = now + 1
            /\ drPc' = "initial"
            /\ taskPc' = "streaming"
    /\ UNCHANGED <<cfgVars, poolVars, taskVars, runVars, curatorVars, connVars, command,
                   dr_websocket,
                   gr_websocket, gr_verbose, original, subtopics_data, subtopics, current,
                   assistant, global_context, global_urls, global_written_sections,
                   existing_headers, report_parts, drExc, visited_in_run>>

\* Lines 278-293: start_streaming returns the report, or its exception leaves
\* handle_start_command.
StreamingEnds ==
    /\ taskPc = "streaming"
    /\ drPc \in {"returned", "raised"}
    /\ taskPc' = IF drPc = "returned" THEN "files" ELSE "failed"
    /\ UNCHANGED <<batchVars, curatorVars, detailedVars, fileVars, connVars, command>>

\* Lines 294-295 and 311-313: the files of the report are written, or a
\* writer raises.
GenerateReportFiles ==
    /\ taskPc = "files"
    /\ \E raised \in BOOLEAN : taskPc' = IF raised THEN "failed" ELSE "paths"
    /\ UNCHANGED <<batchVars, curatorVars, detailedVars, fileVars, connVars, command>>

\* Lines 297-298 and 428-429: the paths of the files are sent.
SendFilePaths ==
    /\ taskPc = "paths"
    /\ client' = Append(client, PathMsg)
    /\ taskPc' = "done"
    /\ UNCHANGED <<batchVars, curatorVars, fileVars, connVars, command, drPc, dr_websocket, gr_websocket,
                   gr_verbose, original, subtopics_data, subtopics, current, assistant,
                   global_context, global_urls, global_written_sections, existing_headers,
                   report_parts, drExc, visited_in_run>>

\* Lines 479-496: safe_run catches the exception of the task and notifies the
\* client.
SafeRunExcept ==
    /\ taskPc = "failed"
    /\ client' = Append(client, ErrorNotice(IF drExc # "" THEN drExc ELSE "files"))
    /\ taskPc' = "done"
    /\ UNCHANGED <<batchVars, curatorVars, fileVars, connVars, command, drPc, dr_websocket, gr_websocket,
                   gr_verbose, original, subtopics_data, subtopics, current, assistant,
                   global_context, global_urls, global_written_sections, existing_headers,
                   report_parts, drExc, visited_in_run>>

ServerNext ==
    \/ HandleStartCommand
    \/ StreamingEnds
    \/ GenerateReportFiles
    \/ SendFilePaths
    \/ SafeRunExcept
    \/ DetailedNext

(***************************************************************************)
(* handle_websocket_communication: the loop of one connection, the task it *)
(* creates and the cancellation of the task when the loop ends.            *)
(***************************************************************************)
MaxCommands == 2
PongMsg == [type |-> "pong"]
TaskCommands == {"start", "human_feedback", "chat"}

\* Line 504: `running_task and not running_task.done()`.
TaskRunning == created > 0 /\ taskPc \notin {"done", "cancelled"}

\* Lines 501-503: a ping is answered at once.
ReceivePing ==
    /\ connPc = "open" /\ received < MaxCommands
    /\ last_data' = "ping"
    /\ received' = received + 1
    /\ client' = Append(client, PongMsg)
    /\ UNCHANGED <<batchVars, curatorVars, serverVars, fileVars, connPc, created,
                   cancel_requested, drPc, dr_websocket, gr_websocket, gr_verbose, original,
                   subtopics_data, subtopics, current, assistant, global_context,
                   global_urls, global_written_sections, existing_headers, report_parts,
                   drExc, visited_in_run>>

\* Mutant of Receive: a command is run whether or not a task is running.
ReceiveUnchecked(data, cmd) ==
    /\ connPc = "open" /\ received < MaxCommands
    /\ last_data' = data
    /\ received' = received + 1
    /\ IF data \in TaskCommands /\ (data = "start" => drPc = "idle")
       THEN /\ created' = created + 1
            /\ taskPc' = data
            /\ command' = IF data = "start" THEN cmd ELSE command
       ELSE UNCHANGED <<created, taskPc, command>>
    /\ UNCHANGED <<batchVars, curatorVars, detailedVars, fileVars, connPc, cancel_requested>>

\* Lines 504-524: a command received while the task is running is dropped
\* (the send_json of line 508 is not awaited, so nothing is sent); otherwise
\* start, human_feedback and chat create the task; any other text is printed.
\* The model follows one report per connection.
Receive(data, cmd) ==
    /\ connPc = "open" /\ received < MaxCommands
    /\ last_data' = data
    /\ received' = received + 1
    /\ IF ~TaskRunning /\ data \in TaskCommands /\ (data = "start" => drPc = "idle")
       THEN /\ created' = created + 1
            /\ taskPc' = data
            /\ command' = IF data = "start" THEN cmd ELSE command
       ELSE UNCHANGED <<created, taskPc, command>>
    /\ UNCHANGED <<batchVars, curatorVars, detailedVars, fileVars, connPc, cancel_requested>>

\* Lines 301-308: the task of a human_feedback or chat command ends, with or
\* without an exception, which safe_run reports (lines 485-494).
OtherTaskEnds ==
    /\ taskPc \in {"human_feedback", "chat"}
    /\ \E raised \in BOOLEAN :
          client' = IF raised THEN Append(client, ErrorNotice(taskPc)) ELSE client
    /\ taskPc' = "done"
    /\ UNCHANGED <<batchVars, curatorVars, fileVars, connVars, command, drPc, dr_websocket,
                   gr_websocket, gr_verbose, original, subtopics_data, subtopics, current,
                   assistant, global_context, global_urls, global_written_sections,
                   existing_headers, report_parts, drExc, visited_in_run>>

\* Lines 527-532: receive_text or a handler raises, the loop breaks and the
\* finally block cancels the task that is not done.
LoopEnds ==
    /\ connPc = "open"
    /\ connPc' = "closed"
    /\ cancel_requested' = TaskRunning
    /\ UNCHANGED <<batchVars, curatorVars, detailedVars, serverVars, fileVars, last_data,
                   received, created>>

\* scraper.py lines 44-46 under web_scraping.py: a research stage of the run
\* starts a fetch batch of a Scraper with no listener.
BrowseStart ==
    /\ taskPc = "streaming" /\ drPc = "initial" /\ runPc = "idle"
    /\ urls' \in SeqsUpTo(Urls, MaxBatch) \ {<<>>}
    /\ pc' = [i \in 1..Len(urls') |-> "waiting"]
    /\ is_async' = [i \in 1..Len(urls') |-> FALSE]
    /\ fetched' = [i \in 1..Len(urls') |-> NotFetched]
    /\ reason' = [i \in 1..Len(urls') |-> EmptyReason]
    /\ result' = [i \in 1..Len(urls') |-> NoResult]
    /\ sent' = [i \in 1..Len(urls') |-> <<>>]
    /\ runPc' = "gather"
    /\ UNCHANGED <<scraper, max_workers, websocket, poolVars, logVars, contents, res,
                   outsideBatch>>

\* The batch has returned to the stage, or raised into it.
BrowseReturn ==
    /\ runPc \in {"returned", "raised"}
    /\ urls' = <<>>
    /\ pc' = <<>> /\ is_async' = <<>> /\ fetched' = <<>> /\ reason' = <<>>
    /\ result' = <<>> /\ sent' = <<>>
    /\ semaphore' = PoolSlots(max_workers) /\ executor' = 0
    /\ runPc' = "idle" /\ contents' = <<>> /\ res' = <<>>
    /\ UNCHANGED <<scraper, max_workers, websocket, logVars, outsideBatch>>

\* Mutant of CancelDelivered: the URL tasks of the batch are not cancelled with
\* the task that gathers them.
CancelOuterOnly ==
    /\ cancel_requested /\ TaskRunning
    /\ cancel_requested' = FALSE
    /\ taskPc' = "cancelled"
    /\ drPc' = IF drPc \in {"idle", "returned", "raised"} THEN drPc ELSE "cancelled"
    /\ UNCHANGED <<batchVars, curatorVars, fileVars, connPc, last_data, received, created,
                   command, dr_websocket,
                   gr_websocket, gr_verbose, original, subtopics_data, subtopics, current,
                   assistant, global_context, global_urls, global_written_sections,
                   existing_headers, report_parts, client, drExc, visited_in_run>>

\* Lines 483-485 and 532: the CancelledError is raised at the await the task
\* is suspended at; no `except Exception` of the run catches it, gather
\* cancels the URL tasks it awaits and each leaves its `async with` block, and
\* safe_run re-raises.  A thread of the executor is not interrupted.
CancelDelivered ==
    /\ cancel_requested /\ TaskRunning
    /\ cancel_requested' = FALSE
    /\ taskPc' = "cancelled"
    /\ drPc' = IF drPc \in {"idle", "returned", "raised"} THEN drPc ELSE "cancelled"
    /\ pc' = [i \in Tasks |-> IF pc[i] \in {"done", "raised"} THEN pc[i] ELSE "cancelled"]
    /\ semaphore' = PoolSlots(max_workers)
    /\ runPc' = IF runPc \in {"gather", "summary"} THEN "cancelled" ELSE runPc
    /\ UNCHANGED <<cfgVars, executor, is_async, fetched, reason, result, sent, logVars,
                   contents, res, curatorVars, fileVars, connPc, last_data, received, created,
                   command, dr_websocket,
                   gr_websocket, gr_verbose, original, subtopics_data, subtopics, current,
                   assistant, global_context, global_urls, global_written_sections,
                   existing_headers, report_parts, client, drExc, visited_in_run>>

\* The steps of a fetch batch that has no listener.
FetchNext ==
    \/ \E i \in Tasks : Acquire(i)
    \/ \E i \in Tasks : Attempt(i)
    \/ \E i \in Tasks : ExecutorStart(i)
    \/ \E i \in Tasks : Backend(i)
    \/ \E i \in Tasks : Reject(i)
    \/ \E i \in Tasks : Accept(i)
    \/ \E i \in Tasks : Except(i)
    \/ Gather
    \/ Summary

\* A step of the task: the run waits for the fetch batch it has started.
TaskNext ==
    /\ runPc = "idle"
    /\ \/ HandleStartCommand
       \/ StreamingEnds
       \/ GenerateReportFiles
       \/ SendFilePaths
       \/ SafeRunExcept
       \/ DetailedNext

ConnNext ==
    \/ ReceivePing
    \/ \E data \in TaskCommands \cup {"other"}, cmd \in Commands : Receive(data, cmd)
    \/ OtherTaskEnds
    \/ LoopEnds
    \/ CancelDelivered
    \/ BrowseStart
    \/ BrowseReturn
    \/ FetchNext
    \/ TaskNext

\* No connection: the run is not driven by the loop of a websocket.
ConnIdle ==
    /\ connPc = "none" /\ last_data = "" /\ received = 0 /\ created = 0
    /\ cancel_requested = FALSE

\* No start command in progress.
ServerIdle == command = NoCommand /\ taskPc = "idle" /\ ConnIdle

(***************************************************************************)
(* Spec: one fetch batch, with no listener or with a CustomLogsHandler     *)
(* that has no client websocket (server_utils.py line 193).                *)
(***************************************************************************)
Init == InitBatch({"None", "handler"}) /\ CuratorIdle /\ DetailedIdle /\ ServerIdle

Next == BatchNext

Spec == Init /\ [][Next]_vars

(***************************************************************************)
(* CuratorSpec: one call of curate_sources over a bounded candidate list.  *)
(***************************************************************************)
CuratorInit ==
    /\ BatchIdle
    /\ websocket \in {"None", "handler"}
    /\ source_data \in SeqsUpTo(SourceItems, MaxSources)
    /\ max_results \in 1..MaxCurated
    /\ response = NoResponse
    /\ curatePc = "start"
    /\ curated = NoResponse
    /\ curator_decisions = <<>>
    /\ verbose \in BOOLEAN
    /\ DetailedIdle
    /\ ServerIdle

CuratorSpec == CuratorInit /\ [][CuratorNext]_vars

(***************************************************************************)
(* DetailedSpec: one run of DetailedReport.run, with or without a client   *)
(* websocket.                                                              *)
(***************************************************************************)
DetailedInit ==
    /\ BatchIdle /\ websocket = "None"
    /\ CuratorIdle
    /\ drPc = "initial"
    /\ dr_websocket \in {"None", "client"}
    /\ gr_websocket = dr_websocket
    /\ gr_verbose \in BOOLEAN
    /\ original = NoOriginal
    /\ subtopics_data = NoData
    /\ subtopics = <<>> /\ current = 0 /\ assistant = NoAssistant
    /\ global_context = {} /\ global_urls = {}
    /\ global_written_sections = <<>> /\ existing_headers = <<>>
    /\ report_parts = NoParts
    /\ client = <<>>
    /\ drExc = ""
    /\ visited_in_run = {}
    /\ ServerIdle

DetailedSpec == DetailedInit /\ [][DetailedNext]_vars

(***************************************************************************)
(* LogSpec: a handler with no client websocket (line 193) receives up to   *)
(* MaxEvents messages of a run.                                            *)
(***************************************************************************)
LogInit == BatchIdle /\ websocket = "handler" /\ CuratorIdle /\ DetailedIdle /\ ServerIdle

LogSpec == LogInit /\ [][LogNext]_vars

(***************************************************************************)
(* ListenerSpec: one fetch batch whose handler forwards to the websocket   *)
(* of a client (line 268); a send to the client can raise.                 *)
(***************************************************************************)
ListenerInit == InitBatch({"handler_ws"}) /\ CuratorIdle /\ DetailedIdle /\ ServerIdle

ListenerSpec == ListenerInit /\ [][Next]_vars

(***************************************************************************)
(* ServerSpec: one start command of a client, run as a task.               *)
(***************************************************************************)
ServerInit ==
    /\ BatchIdle /\ websocket = "None"
    /\ CuratorIdle
    /\ drPc = "idle"
    /\ dr_websocket = "client" /\ gr_websocket = "client"
    /\ gr_verbose \in BOOLEAN
    /\ original = NoOriginal
    /\ subtopics_data = NoData
    /\ subtopics = <<>> /\ current = 0 /\ assistant = NoAssistant
    /\ global_context = {} /\ global_urls = {}
    /\ global_written_sections = <<>> /\ existing_headers = <<>>
    /\ report_parts = NoParts
    /\ client = <<>>
    /\ drExc = ""
    /\ visited_in_run = {}
    /\ command \in Commands
    /\ taskPc = "start"
    /\ ConnIdle

ServerSpec == ServerInit /\ [][ServerNext]_vars

(***************************************************************************)
(* ConnSpec: one connection: up to MaxCommands texts of the client, the    *)
(* task of a command, and the end of the loop.                             *)
(***************************************************************************)
ConnInit ==
    /\ BatchIdle /\ websocket = "None"
    /\ CuratorIdle
    /\ drPc = "idle"
    /\ dr_websocket = "client" /\ gr_websocket = "client"
    /\ gr_verbose = TRUE
    /\ original = NoOriginal
    /\ subtopics_data = NoData
    /\ subtopics = <<>> /\ current = 0 /\ assistant = NoAssistant
    /\ global_context = {} /\ global_urls = {}
    /\ global_written_sections = <<>> /\ existing_headers = <<>>
    /\ report_parts = NoParts
    /\ client = <<>>
    /\ drExc = ""
    /\ visited_in_run = {}
    /\ command = NoCommand
    /\ taskPc = "idle"
    /\ connPc = "open" /\ last_data = "" /\ received = 0 /\ created = 0
    /\ cancel_requested = FALSE

ConnSpec == ConnInit /\ [][ConnNext]_vars

(***************************************************************************)
(* PassSpec: the fetch batch of one research pass of a DetailedReport      *)
(* whose listener is the handler of the log: the initial pass of the       *)
(* top-level researcher, or the pass of a subtopic assistant.              *)
(***************************************************************************)
\* browser.py lines 33-38: the Scraper of a pass gets the websocket of the
\* researcher that browses.
browse_urls_websocket(researcher) == researcher.websocket

Stages == {"initial", "sub_research"}
PassInit ==
    /\ CuratorIdle /\ ServerIdle
    /\ dr_websocket = "handler"
    /\ subtopics_data = NoData
    /\ global_context = {} /\ global_urls = {}
    /\ global_written_sections = <<>> /\ existing_headers = <<>>
    /\ report_parts = NoParts
    /\ client = <<>>
    /\ drExc = ""
    /\ visited_in_run = {}
    /\ drPc \in Stages
    /\ IF drPc = "initial"
       THEN /\ gr_websocket = dr_websocket /\ gr_verbose = TRUE
            /\ original = NoOriginal
            /\ subtopics = <<>> /\ current = 0 /\ assistant = NoAssistant
            /\ InitBatch({browse_urls_websocket([websocket |-> gr_websocket])})
       ELSE /\ gr_websocket = "None" /\ gr_verbose = FALSE
            /\ original = [ws |-> dr_websocket, verbose |-> TRUE]
            /\ subtopics = <<[task |-> 1]>> /\ current = 1
            /\ assistant = SubtopicAssistant(subtopics[1], global_context, global_urls)
            /\ InitBatch({browse_urls_websocket(assistant)})

PassSpec == PassInit /\ [][BatchNext]_vars

(***************************************************************************)
(* SelectSpec: batches of one URL of any shape, for the choice of backend. *)
(***************************************************************************)
SelectInit ==
    /\ InitBatchOver(Links, 1, {"None", "handler"})
    /\ CuratorIdle /\ DetailedIdle /\ ServerIdle

SelectSpec == SelectInit /\ [][BatchNext]_vars

(***************************************************************************)
(* SiblingSpec: one fetch batch logged by a handler, on a pool with room   *)
(* for at least two tasks.                                                 *)
(***************************************************************************)
SiblingInit ==
    /\ InitBatch({"handler"})
    /\ max_workers >= 2
    /\ CuratorIdle /\ DetailedIdle /\ ServerIdle

SiblingSpec == SiblingInit /\ [][BatchNext]_vars

(***************************************************************************)
(* FairSpec: the event loop runs a task that can take a step, and every    *)
(* backend call ends.                                                      *)
(***************************************************************************)
FairSpec == Spec /\ WF_vars(Next)

(***************************************************************************)
(* Properties of the fetch batch.                                          *)
(***************************************************************************)
\* Positions inside the `async with self.worker_pool.throttle()` block.
InThrottle == {"attempt", "queued", "scraping", "rejected", "accepted", "success_log",
               "except", "error_log"}
Holders == {i \in Tasks : pc[i] \in InThrottle}

\* What the backend of task i ended with.
BackendReturned(i) == pc[i] \in {"rejected", "accepted", "success_log", "done"}
                      /\ fetched[i].exc = ""
BackendAccepted(i) == BackendReturned(i) /\ fetched[i].content # None
                      /\ fetched[i].content >= 100
RunReturned == runPc \in {"summary", "returned"}

\* C1: in every state of a batch, the number of tasks inside the throttle
\* block is at most the capacity the pool was built with.
C1_AtMostNHolders == Cardinality(Holders) <= max_workers

\* C1 witness: the gate is full and a task of the batch waits at it.
C1_Witness ==
    /\ Cardinality(Holders) = max_workers
    /\ \E i \in Tasks : pc[i] = "waiting"

\* C2: a returned content is accepted (and is the raw_content of the result)
\* iff it is non-empty and of length at least 100; length 99 is rejected with a
\* too-short reason naming 99, length 100 is accepted, empty or missing content
\* is rejected with "No content retrieved".
C2_AcceptanceRule ==
    \A i \in Tasks :
        (pc[i] = "done" /\ fetched[i].exc = "") =>
            LET content == fetched[i].content IN
            /\ (result[i].raw_content # None)
                   <=> (content # None /\ content # 0 /\ content >= 100)
            /\ result[i].raw_content # None => result[i].raw_content = content
            /\ content = 100 => result[i].raw_content = 100
            /\ (content # None /\ content > 0 /\ content < 100) =>
                   /\ reason[i].text = "Content too short ({n} characters)"
                   /\ reason[i].n = content
            /\ (content = None \/ content = 0) => reason[i].text = "No content retrieved"

\* C2 witness: one task returned after a content of 99, another after one of 100.
C2_Witness ==
    \E i, j \in Tasks :
        /\ pc[i] = "done" /\ fetched[i].exc = "" /\ fetched[i].content = 99
        /\ pc[j] = "done" /\ fetched[j].exc = "" /\ fetched[j].content = 100

\* C3: run returns only entries with a raw_content, each the result of an
\* accepted task of the batch, never more entries than URLs; the result of a
\* rejected or failed task is not in the list, and a URL no task of which was
\* accepted has no entry.
C3_OnlyAccepted ==
    RunReturned =>
        /\ \A k \in 1..Len(res) :
              /\ res[k].raw_content # None
              /\ \E i \in Tasks : urls[i] = res[k].url /\ BackendAccepted(i)
        /\ Len(res) <= Len(urls)
        /\ Len(res) = Cardinality({i \in Tasks : BackendAccepted(i)})
        /\ \A i \in Tasks :
              ~BackendAccepted(i) => \A k \in 1..Len(res) : res[k] # result[i]

\* C3 witness: a batch of two returned one entry.
C3_Witness == runPc = "returned" /\ Len(urls) = 2 /\ Len(res) = 1

\* A handler is attached to the scraper as its websocket.
Logging == websocket # "None"
AllTasksDone == \A i \in Tasks : pc[i] = "done"
DistinctUrls == \A i, j \in Tasks : urls[i] = urls[j] => i = j
RecordsOf(url) == {k \in 1..Len(sources) : sources[k].url = url}
RecordOf(url) == sources[CHOOSE k \in RecordsOf(url) : TRUE]
Count(seq, x) == Cardinality({k \in 1..Len(seq) : seq[k] = x})

\* C4: once every task of a batch has finished, every URL of the batch has
\* exactly one record in the sources list of the log, whatever its outcome.
C4_OneRecordPerUrl ==
    (Logging /\ AllTasksDone) =>
        \A i \in Tasks : Cardinality(RecordsOf(urls[i])) = 1

\* C4 witness: a finished batch of a handler in which one URL failed with an
\* exception and one was rejected.
C4_Witness ==
    /\ Logging /\ runPc = "returned"
    /\ \E i, j \in Tasks : fetched[i].exc # "" /\ BackendReturned(j) /\ ~BackendAccepted(j)

\* C5: after a returned batch over distinct URLs, a URL's record has used true
\* iff the URL is in the returned list; a record with used false has a
\* non-empty skip_reason, which for a too-short content names its length; the
\* reason is the one of the URL's own outcome, not the one of the batch summary.
C5_UsedMatchesResult ==
    (Logging /\ runPc = "returned" /\ DistinctUrls) =>
        \A i \in Tasks :
            /\ RecordsOf(urls[i]) # {}
            /\ LET rec == RecordOf(urls[i]) IN
               /\ rec.used \in {"True", "False"}
               /\ rec.used = "True" <=> \E k \in 1..Len(res) : res[k].url = urls[i]
               /\ rec.used = "False" => rec.skip_reason.text # ""
               /\ (fetched[i].exc = "" /\ fetched[i].content > 0 /\ fetched[i].content < 100) =>
                      /\ rec.skip_reason.text = "Content too short ({n} characters)"
                      /\ rec.skip_reason.n = fetched[i].content
               /\ rec.skip_reason = reason[i]
               /\ rec.skip_reason # SummaryFailedReason

\* C5 witness: a returned batch of two distinct URLs, one accepted and one
\* rejected for a content of 99 characters.
C5_Witness ==
    /\ Logging /\ runPc = "returned" /\ DistinctUrls
    /\ \E i, j \in Tasks : BackendAccepted(i) /\ fetched[j].exc = "" /\ fetched[j].content = 99

\* C6: a task whose backend (or get_scraper) raised returns a rejected result
\* with an empty title and the reason "Scraping error: <message>"; every other
\* task returns what its own backend outcome gives; no task and no run raises.
C6_FailureIsolated ==
    /\ runPc # "raised"
    /\ \A i \in Tasks :
        /\ pc[i] # "raised"
        /\ (pc[i] = "done" /\ fetched[i].exc # "") =>
              /\ result[i] = [url |-> urls[i], raw_content |-> None, title |-> NoTitle]
              /\ reason[i].text = "Scraping error: {msg}"
              /\ reason[i].msg = fetched[i].exc
              /\ (Logging /\ Cardinality({j \in Tasks : urls[j] = urls[i]}) = 1) =>
                    /\ RecordsOf(urls[i]) # {}
                    /\ RecordOf(urls[i]).used = "False"
                    /\ RecordOf(urls[i]).skip_reason.text = "Scraping error: {msg}"
                    /\ RecordOf(urls[i]).skip_reason.msg = fetched[i].exc
        /\ (pc[i] = "done" /\ fetched[i].exc = "") =>
              result[i] = [url |-> urls[i],
                           raw_content |-> IF fetched[i].content >= 100
                                           THEN fetched[i].content ELSE None,
                           title |-> fetched[i].title]

\* C6 witness: run returned a sibling's accepted content although get_scraper
\* raised "Scraper not found." for one URL.
C6_Witness ==
    /\ runPc = "returned"
    /\ \E i \in Tasks : fetched[i].exc = ScraperNotFound
    /\ Len(res) = 1

\* C7: with a handler attached, a task has sent no source_update before its
\* outcome is known and exactly one from its outcome event on, so exactly one
\* when it returns.
C7_OneOutcomeEvent ==
    Logging =>
        \A i \in Tasks :
            Count(sent[i], "source_update")
                = IF pc[i] \in {"success_log", "error_log", "done"} THEN 1 ELSE 0

\* C7 witness: two finished tasks, one accepted and one ended by an exception
\* of its backend call.
C7_Witness ==
    /\ Logging
    /\ \E i, j \in Tasks :
        /\ pc[i] = "done" /\ BackendAccepted(i)
        /\ pc[j] = "done" /\ fetched[j].exc = BackendError

\* C8: run is past gather only when every task has returned, and contents
\* holds the result of every URL, in order.
C8_JoinSemantics ==
    /\ runPc # "raised"
    /\ runPc # "gather" =>
        /\ AllTasksDone
        /\ Len(contents) = Len(urls)
        /\ \A i \in Tasks : contents[i] = result[i] /\ contents[i].url = urls[i]

\* C8 witness: run returned from a batch of two in which one URL failed.
C8_Witness ==
    /\ runPc = "returned" /\ Len(urls) = 2
    /\ \E i, j \in Tasks : i # j /\ fetched[i].exc # "" /\ BackendReturned(j)

\* C9: under FairSpec every batch reaches the state in which run has
\* returned, every task has returned and every slot of the gate is free
\* again: no task waits at the gate for ever and no holder keeps its slot.
C9_NoDeadlock ==
    <>(runPc = "returned" /\ AllTasksDone /\ semaphore = max_workers /\ executor = 0)

\* C9 witness: run returned from a batch larger than the capacity in which a
\* synchronous backend raised.
C9_Witness ==
    /\ runPc = "returned" /\ Len(urls) > max_workers /\ semaphore = max_workers
    /\ \E i \in Tasks : fetched[i].exc = BackendError /\ ~is_async[i]

(***************************************************************************)
(* Properties of curate_sources.                                           *)
(***************************************************************************)
\* The URLs of the candidates: of every dict of source_data that has a url.
InputUrls ==
    {source_data[k].url :
        k \in {j \in 1..Len(source_data) : source_data[j].is_dict /\ source_data[j].url # <<>>}}
ReturnedUrls ==
    {curated.items[k].url :
        k \in {j \in 1..Len(curated.items) : curated.items[j].is_dict}}

\* C10: when the service returned a list, the decisions are keyed by exactly
\* the URLs of the candidates; a candidate URL is kept, as selected by the
\* curator, iff it occurs in the returned list, and is otherwise rejected, as
\* rejected by the curator.
C10_DecisionForEveryInput ==
    (curatePc = "returned" /\ response.kind = "list") =>
        /\ DOMAIN curator_decisions = InputUrls
        /\ \A url \in InputUrls :
              /\ curator_decisions[url].kept <=> url \in ReturnedUrls
              /\ curator_decisions[url].kept =>
                    curator_decisions[url].reason
                        = "Selected by LLM curator as relevant and credible"
              /\ ~curator_decisions[url].kept =>
                    curator_decisions[url].reason
                        = "Rejected by LLM curator - insufficient relevance, credibility, or quality"

\* C10 witness: of two candidates the service returned one, with a source no
\* candidate has.
C10_Witness ==
    /\ curatePc = "returned" /\ response.kind = "list"
    /\ Cardinality(InputUrls) = 2
    /\ Cardinality(InputUrls \cap ReturnedUrls) = 1
    /\ UrlInvented \in ReturnedUrls

\* The call of curate_sources returned its argument and kept every candidate
\* by default.
PassThrough ==
    /\ curated = [kind |-> "source_data", items |-> source_data]
    /\ DOMAIN curator_decisions = InputUrls
    /\ \A url \in InputUrls :
          /\ curator_decisions[url].kept
          /\ curator_decisions[url].reason = "Curation failed - source included by default"

\* C11: whenever the ranking call raised or its response was not a JSON list
\* of sources (no JSON, a scalar, an object or a string), curate_sources
\* returns source_data itself and keeps every candidate URL by default, with
\* the reason that curation failed.
C11_FailOpen ==
    (curatePc = "returned" /\ response.kind # "list") => PassThrough

(***************************************************************************)
(* Properties of DetailedReport.run.                                       *)
(***************************************************************************)
Listening == dr_websocket # "None"
RunEnded == drPc \in {"returned", "raised"}
ReportsSent == Cardinality({k \in 1..Len(client) : TypeOf(client[k]) = "report"})
SubtopicCalls == {"subtopic conduct_research", "subtopic write_report"}

\* C12: a run with a listener that got as far as its subtopic passes and
\* ended, by returning or because a subtopic pass failed, has sent exactly
\* one message of type "report", whatever the number of subtopics.
C12_ExactlyOneReport ==
    (Listening /\ RunEnded /\ (drPc = "raised" => drExc \in SubtopicCalls)) =>
        ReportsSent = 1

\* Positions of run between the silencing of line 83 and the restore of line 99.
SilentPhase == {"introduction", "sub_research", "sub_write", "conclusion"}
\* Progress of the initial pass and of the decomposition.
IsEarlyProgress(msg) ==
    TypeOf(msg) = "logs" /\ msg.output \in {"conduct_research", "get_subtopics"}
IsCompletionLog(msg) == TypeOf(msg) = "logs" /\ msg.output = CompletionOutput

\* C13: in the silent phase the top-level researcher has no websocket and is
\* not verbose, the assistant of a running pass neither, and the client has
\* received nothing but progress of the initial pass and the decomposition;
\* what follows that progress is the completion log and then one "report"
\* message carrying the assembled document.
C13_SilentSubPasses ==
    /\ drPc \in SilentPhase => gr_websocket = "None" /\ ~gr_verbose
    /\ drPc \in {"sub_research", "sub_write"} =>
          assistant.websocket = "None" /\ ~assistant.verbose
    /\ \A k \in 1..Len(client) :
          \/ /\ IsEarlyProgress(client[k])
             /\ \A j \in 1..k : IsEarlyProgress(client[j])
          \/ /\ IsCompletionLog(client[k])
             /\ drPc \in {"send_report", "returned"}
             /\ \A j \in 1..(k - 1) : IsEarlyProgress(client[j])
          \/ /\ client[k].type = "report"
             /\ drPc = "returned"
             /\ k = Len(client) /\ k > 1 /\ IsCompletionLog(client[k - 1])
             /\ client[k].output = report_parts.report
             /\ client[k].output.introduction = "introduction"
             /\ client[k].output.conclusion = "conclusion"
             /\ Len(client[k].output.body) <= Len(subtopics)

\* C13 witness: a verbose run over two subtopics returned; the client saw
\* progress of the initial pass, then the completion log and the report.
C13_Witness ==
    /\ drPc = "returned" /\ Listening /\ Len(subtopics) = 2
    /\ Len(client) = 4 /\ IsEarlyProgress(client[1]) /\ client[4].type = "report"
    /\ Len(client[4].output.body) = 2

\* C14: after the initial pass, no step of the run takes a URL out of
\* global_urls: the set after the fold of a subtopic contains the set before
\* it, hence the URLs of the initial pass and of every earlier fold.
C14_UrlsOnlyGrow == [][drPc # "initial" => global_urls \subseteq global_urls']_vars

\* C14 witness: the second pass is about to be folded; the merged set is not
\* empty and the pass visited only other URLs.
C14_Witness ==
    /\ drPc = "sub_write" /\ current = 2
    /\ global_urls # {} /\ assistant.visited_urls # {}
    /\ assistant.visited_urls \cap global_urls = {}

\* C15: after the initial pass, no step of the run takes a chunk out of
\* global_context: every chunk that was in it before the fold of a subtopic
\* pass is in it after the fold, whatever context the pass ended with.
C15_ContextOnlyGrows ==
    [][drPc # "initial" => global_context \subseteq global_context']_vars

\* get_subtopics returned nothing usable: None, an empty list, or an object
\* with no subtopics.
NoUsableSubtopics ==
    \/ subtopics_data.kind \in {"None", "empty_list"}
    \/ subtopics_data.kind = "object" /\ subtopics_data.n = 0

\* C16: when get_subtopics returned nothing usable, the decomposition does not
\* raise and no subtopic pass is ever started; the run goes from the
\* introduction to the conclusion, and the report it builds and sends once has
\* the introduction, the conclusion and an empty body.
C16_NoSubtopicsStillReports ==
    NoUsableSubtopics =>
        /\ subtopics = <<>>
        /\ drPc \in {"introduction", "conclusion", "send_log", "send_report", "returned",
                     "raised"}
        /\ drExc \notin {"get_subtopics"} \cup SubtopicCalls
        /\ current = 0 /\ assistant = NoAssistant /\ existing_headers = <<>>
        /\ drPc \in {"send_log", "send_report", "returned"} =>
              /\ report_parts.report.introduction = "introduction"
              /\ report_parts.report.conclusion = "conclusion"
              /\ report_parts.report.body = <<>>
              /\ report_parts.report.toc = <<>>
              /\ report_parts.report.references = global_urls
        /\ (drPc = "returned" /\ Listening) =>
              /\ ReportsSent = 1
              /\ client[Len(client)].output = report_parts.report

\* C16 witness: get_subtopics returned None and the run returned after sending
\* its report.
C16_Witness ==
    /\ subtopics_data.kind = "None"
    /\ drPc = "returned" /\ Listening /\ ReportsSent = 1

(***************************************************************************)
(* Properties of the log.                                                  *)
(***************************************************************************)
RecordedUrls(srcs) == {srcs[k].url : k \in 1..Len(srcs)}

\* C17: the sources list never holds two records of one URL, and no message
\* of a run (logs, scraped_data, source_update, curator_decisions, report, the
\* first message of handle_start_command) takes a recorded URL out of it.
C17_OneRecordNeverRemoved ==
    /\ [](\A j, k \in 1..Len(sources) : sources[j].url = sources[k].url => j = k)
    /\ [][RecordedUrls(sources) \subseteq RecordedUrls(sources')]_vars

\* C17 witness: after three messages the log holds two URLs, one recorded by
\* an attempt log and one with a known outcome.
C17_Witness ==
    /\ runPc = "idle" /\ now = 3 /\ Len(sources) = 2
    /\ \E j, k \in 1..Len(sources) : sources[j].used = "None" /\ sources[k].used # "None"

AllKeys == {"url", "used", "skip_reason", "title", "content_length", "scraped_at"}

\* C18: when every task of a batch over distinct URLs has finished, in
\* whatever order the tasks ran and finished, the log holds exactly one record
\* per URL, with all its fields, and used, skip_reason, title and
\* content_length are those of the URL's own outcome.
C18_NoLostUpdate ==
    (Logging /\ AllTasksDone /\ DistinctUrls) =>
        /\ Len(sources) = Len(urls)
        /\ \A i \in Tasks :
              /\ Cardinality(RecordsOf(urls[i])) = 1
              /\ LET rec == RecordOf(urls[i])
                     content == fetched[i].content
                     failed == fetched[i].exc # ""
                 IN  /\ rec.keys = AllKeys
                     /\ rec.used = IF BackendAccepted(i) THEN "True" ELSE "False"
                     /\ rec.skip_reason = reason[i]
                     /\ rec.title = result[i].title
                     /\ rec.title = IF failed THEN NoTitle ELSE fetched[i].title
                     /\ rec.content_length =
                            IF failed \/ Falsy(content) THEN 0 ELSE content

\* C18 witness: two tasks over distinct URLs have finished with different
\* outcomes, and the second URL was recorded before the first.
C18_Witness ==
    /\ Logging /\ AllTasksDone /\ DistinctUrls /\ Len(urls) = 2
    /\ sources[1].url = urls[2]
    /\ BackendAccepted(1) /\ fetched[2].exc = BackendError

\* Two sources lists with the same records, whatever their timestamps.
SameContent(a, b) ==
    /\ Len(a) = Len(b)
    /\ \A k \in 1..Len(a) : [a[k] EXCEPT !.scraped_at = 0] = [b[k] EXCEPT !.scraped_at = 0]

\* What task i returns by its backend outcome alone.
OutcomeResult(i) ==
    [url |-> urls[i],
     raw_content |-> IF fetched[i].exc # "" \/ Rejected(fetched[i].content) THEN None
                     ELSE fetched[i].content,
     title |-> IF fetched[i].exc # "" THEN NoTitle ELSE fetched[i].title]

\* C19: when run has returned, the list it returns is the one the backend
\* outcomes give, and the sources of the log are those the same run writes
\* with no client websocket attached to the handler.
C19_SameWithListener ==
    runPc = "returned" =>
        /\ res = FilterContents([i \in Tasks |-> OutcomeResult(i)])
        /\ SameContent(sources, baseline)

(***************************************************************************)
(* Properties of a start command.                                          *)
(***************************************************************************)
ContentOf(msg) == IF "content" \in DOMAIN msg THEN msg.content ELSE ""
ErrorsSent ==
    Cardinality({k \in 1..Len(client) :
                    TypeOf(client[k]) = "logs" /\ ContentOf(client[k]) = "error"})

\* C20: when the task of a start command has ended, the client has received
\* either one "report" message or one error notification (type "logs",
\* content "error"): not both, not two of either, and not neither.
C20_OneFinalOutcome ==
    taskPc = "done" => ReportsSent + ErrorsSent = 1

(***************************************************************************)
(* Properties of the subtopic passes.                                      *)
(***************************************************************************)
\* C21: after the initial research the merged state changes only in the fold
\* of a finished pass: while a subtopic pass is running, and in every other
\* step of the run, global_context and global_urls stay as they are.
C21_PassWorksOnCopy ==
    [][(drPc # "initial" /\ drPc # "sub_write") =>
          (global_context' = global_context /\ global_urls' = global_urls)]_vars
\* C22: the passes run one at a time in the order of the decomposition: when
\* pass k runs (its research, and its write_report, which is handed
\* existing_headers), the history holds exactly the entries of subtopics
\* 1..k-1, in that order, each with the headers of that subtopic's report.
PassRunning == drPc \in {"sub_research", "sub_write"}
C22_SequentialPasses ==
    PassRunning =>
        /\ current \in 1..Len(subtopics)
        /\ assistant.task = subtopics[current].task
        /\ Len(existing_headers) = current - 1
        /\ \A j \in 1..(current - 1) :
              /\ existing_headers[j].task = subtopics[j].task
              /\ existing_headers[j].headers \in
                    {extract_headers(EmptyReport), extract_headers(ReportOf(subtopics[j].task))}
C22_Witness ==
    /\ drPc = "sub_write" /\ current = 2
    /\ existing_headers = <<[task |-> 1, headers |-> extract_headers(ReportOf(1))]>>
\* C23: a pass whose report is empty adds nothing to the body and does not end
\* the run: the body is the sequence of the non-empty subtopic reports in the
\* order of the decomposition, and once the passes are over every subtopic
\* has had its pass.
WroteReport(entry) == entry.headers # extract_headers(EmptyReport)
NonEmptyReports ==
    LET written == SelectSeq(existing_headers, WroteReport)
    IN  [k \in 1..Len(written) |-> ReportOf(written[k].task)]
PassesOver == drPc \in {"conclusion", "send_log", "send_report", "returned"}
C23_EmptyReportSkipped ==
    /\ report_parts.body = NonEmptyReports
    /\ PassesOver => [k \in 1..Len(existing_headers) |-> existing_headers[k].task]
                        = [k \in 1..Len(subtopics) |-> subtopics[k].task]
C23_Witness ==
    /\ drPc = "returned"
    /\ Len(subtopics) = 2
    /\ ~WroteReport(existing_headers[1])
    /\ report_parts.report.body = <<ReportOf(2)>>
\* C24: the references of the document are built from the merged URL set of
\* the whole run: they contain every URL the initial pass and every subtopic
\* pass have visited.
ReportBuilt == drPc \in {"send_log", "send_report", "returned"}
C24_ReferencesFromMergedUrls ==
    ReportBuilt =>
        /\ report_parts.report.references = global_urls
        /\ visited_in_run \subseteq report_parts.report.references
C24_Witness ==
    /\ drPc = "returned"
    /\ Len(subtopics) = 2
    /\ report_parts.report.references = Urls
    /\ \E link \in Urls : link \in visited_in_run /\ link \notin assistant.visited_urls
\* C25: the log of the run observes the fetches of every stage: when the
\* fetch batch of a subtopic pass has returned, every URL of the batch has a
\* record in the log.
C25_SubPassFetchesLogged ==
    (drPc = "sub_research" /\ runPc = "returned") =>
        \A i \in Tasks : urls[i] \in RecordedUrls(sources)
(***************************************************************************)
(* Properties of the curated list.                                         *)
(***************************************************************************)
\* C26: the list curate_sources returns is reconciled against its input:
\* every returned source with a URL has the URL of an input candidate, and
\* has a recorded decision.
ReturnedSourceUrls == kept_urls(curated.items)
C26_ReconciledWithInput ==
    curatePc = "returned" =>
        /\ ReturnedSourceUrls \subseteq InputUrls
        /\ ReturnedSourceUrls \subseteq DOMAIN curator_decisions
\* C27: curate_sources does not cut the list itself: when the service returns
\* more than max_results sources, the returned list is the list of the
\* service, and every input URL that occurs in it is recorded as kept.
OverLong == response.kind = "list" /\ Len(response.items) > max_results
ExpectedBackend(link) ==
    IF EndsWith(link, ".pdf") THEN "PyMuPDFScraper"
    ELSE IF DomainOf(link) = "arxiv.org" THEN "ArxivScraper"
    ELSE "BeautifulSoupScraper"
Chosen(i) == pc[i] \notin {"waiting", "attempt"}
C28_BackendSelection ==
    \A i \in Tasks :
        (Chosen(i) /\ scraper = "bs") => get_scraper(urls[i], scraper) = ExpectedBackend(urls[i])
(***************************************************************************)
(* Properties of the order of the events of a batch.                       *)
(***************************************************************************)
\* C29: in every interleaving of the URL tasks, the events of one URL are in
\* order: the first message of a task is its attempt log, so its
\* source_update comes later, and a record enters the log through an attempt,
\* with used unknown, never through an outcome.  Nothing orders the events of
\* different URLs (C29_Witness).
AttemptFirst(i) ==
    sent[i] # <<>> =>
        /\ sent[i][1] = "logs"
        /\ \A k \in 1..Len(sent[i]) : sent[i][k] = "source_update" => k > 1
CreatedByAttempt ==
    \A k \in 1..Len(sources') :
        sources'[k].url \notin RecordedUrls(sources) => sources'[k].used = "None"
C29_AttemptBeforeOutcome ==
    /\ [](Logging => \A i \in Tasks : AttemptFirst(i))
    /\ [][Logging => CreatedByAttempt]_vars
C29_Witness ==
    /\ Logging
    /\ Len(urls) = 2 /\ urls[1] # urls[2]
    /\ sent[1] = <<>>
    /\ Len(sent[2]) >= 2 /\ sent[2][1] = "logs" /\ sent[2][2] = "source_update"
    /\ \E k \in 1..Len(sources) : sources[k].url = urls[2] /\ sources[k].used # "None"
\* C30: a URL whose backend call does not end delays no sibling: while
\* URL a is in flight and the pool has room for two, a sibling that has sent
\* its outcome has it in the log, with the batch not yet returned, and a
\* sibling that has not finished can take its next step as long as fewer
\* than max_workers other tasks hold a slot.
InFlight(a) == pc[a] \in {"queued", "scraping"}
OutcomeSent(b) == pc[b] \in {"success_log", "error_log", "done"}
OutcomeRecorded(b) ==
    \E k \in 1..Len(sources) : sources[k].url = urls[b] /\ sources[k].used # "None"
OtherHolders(b) == {j \in Tasks \ {b} : pc[j] \in InThrottle}
TaskStep(b) ==
    \/ Acquire(b) \/ Attempt(b) \/ ExecutorStart(b) \/ Backend(b) \/ Reject(b)
    \/ Accept(b) \/ SuccessLog(b) \/ Except(b) \/ ErrorLog(b)
C30_SlowUrlDelaysNoSibling ==
    Logging =>
        \A a, b \in Tasks :
            (a # b /\ InFlight(a) /\ max_workers >= 2) =>
                /\ OutcomeSent(b) => (runPc = "gather" /\ OutcomeRecorded(b))
                /\ (pc[b] # "done" /\ Cardinality(OtherHolders(b)) < max_workers)
                      => ENABLED TaskStep(b)
C30_Witness ==
    /\ Logging /\ max_workers >= 2
    /\ Len(urls) = 2 /\ urls[1] # urls[2]
    /\ Len(sources) = 2
    /\ sources[1].url = urls[1] /\ sources[1].used = "None"
    /\ pc[1] = "scraping"
    /\ pc[2] = "done" /\ OutcomeRecorded(2)
    /\ runPc = "gather"

\* The handler has returned from a send_json call in this step.
Returned == now' = now + 1 /\ last_msg' # NoMsg
FirstRecord(srcs, url) == SetMin({j \in 1..Len(srcs) : srcs[j].url = url})

\* C31: a source_update for a URL that is already in the log sets that
\* record's used, skip_reason, title and content_length to the event's
\* values, leaves its url and scraped_at as they were, and leaves the records
\* of the other URLs and the curator decisions unchanged.
C31_SourceUpdateExisting ==
    [][(Returned /\ TypeOf(last_msg') = "source_update" /\ HasUrl(sources, last_msg'.url)) =>
          LET data == last_msg'
              k == FirstRecord(sources, data.url)
          IN  /\ Len(sources') = Len(sources)
              /\ sources'[k].used = data.used
              /\ sources'[k].skip_reason = data.skip_reason
              /\ sources'[k].title = data.title
              /\ sources'[k].content_length = data.content_length
              /\ sources'[k].url = sources[k].url
              /\ sources'[k].scraped_at = sources[k].scraped_at
              /\ \A j \in 1..Len(sources) : j # k => sources'[j] = sources[j]
              /\ log_decisions' = log_decisions
              /\ events' = events]_vars

\* C31 witness: the latest event is a source_update for a URL whose record
\* was created by an earlier event, next to the record of another URL.
C31_Witness ==
    /\ TypeOf(last_msg) = "source_update"
    /\ Len(sources) = 2
    /\ \E k \in 1..2 :
          /\ sources[k].url = last_msg.url
          /\ sources[k].scraped_at < now - 1
          /\ sources[k].used = "False"
    /\ sources[1].url # sources[2].url

\* C32: a curator_decisions event adds the event's entries to
\* content.curator_decisions, keyed by URL, overwriting the entries of the
\* URLs it names and keeping the others, and leaves the sources list and the
\* events list unchanged.
C32_DecisionsMerged ==
    [][(Returned /\ TypeOf(last_msg') = "curator_decisions") =>
          LET new == last_msg'.decisions IN
              /\ DOMAIN log_decisions' = DOMAIN log_decisions \cup DOMAIN new
              /\ \A url \in DOMAIN new : log_decisions'[url] = new[url]
              /\ \A url \in DOMAIN log_decisions \ DOMAIN new :
                    log_decisions'[url] = log_decisions[url]
              /\ sources' = sources
              /\ events' = events]_vars

\* C32 witness: the latest event is a curator_decisions event that set
\* the decision of one URL and kept the earlier decision of another, in a log that
\* holds a source and an event.
C32_Witness ==
    /\ TypeOf(last_msg) = "curator_decisions"
    /\ DOMAIN last_msg.decisions # {}
    /\ DOMAIN last_msg.decisions # DOMAIN log_decisions
    /\ \E a \in DOMAIN last_msg.decisions : \E b \in DOMAIN log_decisions :
          log_decisions[a].kept # log_decisions[b].kept
    /\ Len(sources) = 1 /\ events = 1

\* The file holds the effect of the event data.
EffectIn(data, srcs, n, decisions, n_before) ==
    /\ TypeOf(data) = "logs" => n = n_before + 1
    /\ (TypeOf(data) = "source_update" /\ data.url # <<>>) =>
          /\ HasUrl(srcs, data.url)
          /\ LET rec == srcs[FirstRecord(srcs, data.url)] IN
                 /\ rec.used = data.used
                 /\ rec.skip_reason = data.skip_reason
                 /\ rec.title = data.title
                 /\ rec.content_length = data.content_length
    /\ TypeOf(data) = "scraped_data" =>
          \A k \in 1..Len(data.scraped_sites) :
              data.scraped_sites[k].url # <<>> => HasUrl(srcs, data.scraped_sites[k].url)
    /\ TypeOf(data) = "curator_decisions" =>
          \A url \in DOMAIN data.decisions :
              url \in DOMAIN decisions /\ decisions[url] = data.decisions[url]
    /\ (TypeOf(data) = "logs" /\ IsScrapingEvent(data) /\ url_match(data.output) # <<>>) =>
          HasUrl(srcs, url_match(data.output))

\* C33: the log is flushed after every update: when a send_json call
\* returns, the file holds that event's effect, and what the earlier events
\* left in the file (the events, the records, the decisions) is still there,
\* so that a crash after any event leaves all earlier events persisted.
C33_FlushedOnReturn ==
    [][Returned =>
          /\ EffectIn(last_msg', sources', events', log_decisions', events)
          /\ events' >= events
          /\ RecordedUrls(sources) \subseteq RecordedUrls(sources')
          /\ DOMAIN log_decisions \subseteq DOMAIN log_decisions']_vars

\* C33 witness: three calls have returned, a logs event, a curator_decisions
\* event and last a source_update, and the file holds the effect of each.
C33_Witness ==
    /\ now = 3 /\ events = 1
    /\ DOMAIN log_decisions # {}
    /\ TypeOf(last_msg) = "source_update"
    /\ EffectIn(last_msg, sources, events, log_decisions, events)

\* Positions of a URL task whose backend call has been dispatched.
Dispatched == {"queued", "scraping"}

\* C34: when the loop of the connection ends while a task is running, the
\* task is cancelled, and once the cancellation has taken effect the run
\* starts no subtopic pass, visits no further URL and dispatches no fetch.
C34_CancellationStopsNewWork ==
    /\ []((connPc = "closed" /\ TaskRunning) => cancel_requested)
    /\ [][taskPc = "cancelled" =>
             /\ taskPc' = "cancelled"
             /\ current' = current /\ drPc' = drPc
             /\ visited_in_run' = visited_in_run
             /\ \A i \in DOMAIN pc' :
                   pc'[i] \in Dispatched => (i \in DOMAIN pc /\ pc[i] \in Dispatched)]_vars

\* C34 witness: the loop has ended during the fetch batch of a running task,
\* with one URL in a thread of the executor and one not yet dispatched, and
\* the cancellation has taken effect.
C34_Witness ==
    /\ connPc = "closed" /\ taskPc = "cancelled" /\ drPc = "cancelled"
    /\ runPc = "cancelled"
    /\ Len(urls) = 2 /\ pc = <<"cancelled", "cancelled">>
    /\ executor = 1

\* C35: a connection has at most one long-running task at any time: a task
\* is created only when there is none or the previous one is done, and a
\* command received while the task is not done creates no task and leaves the
\* running one as it is.
C35_OneTaskPerConnection ==
    [][/\ created' > created => (~TaskRunning /\ created' = created + 1)
       /\ (received' > received /\ TaskRunning) =>
              (created' = created /\ taskPc' = taskPc /\ command' = command)]_vars

\* C35 witness: a chat command was received while the task of a start
\* command was streaming, and there is still one task.
C35_Witness ==
    /\ connPc = "open" /\ received = 2 /\ created = 1
    /\ last_data = "chat" /\ taskPc = "streaming"

\* The tasks whose backend outcome is an accepted content, and the k-th of
\* them in input order.
AcceptedTasks == {i \in Tasks : OutcomeResult(i).raw_content # None}
NthAccepted(k) ==
    CHOOSE i \in AcceptedTasks : Cardinality({j \in AcceptedTasks : j < i}) = k - 1

\* C36: the list Scraper.run returns preserves the input order: it is the
\* subsequence of the input URL list made of the accepted URLs, each with its
\* own content, whatever the order in which the tasks ran and completed.
C36_InputOrderPreserved ==
    runPc \in {"summary", "returned"} =>
        /\ Len(res) = Cardinality(AcceptedTasks)
        /\ \A k \in 1..Len(res) : res[k] = OutcomeResult(NthAccepted(k))

\* C36 witness: in a batch of two distinct URLs on a pool of one slot the
\* second URL ran and completed before the first started, both were
\* accepted, and the first URL comes first in the returned list.
C36_Witness ==
    /\ runPc = "returned" /\ Logging /\ max_workers = 1
    /\ Len(urls) = 2 /\ urls[1] # urls[2]
    /\ Len(sources) = 2 /\ sources[1].url = urls[2]
    /\ Len(res) = 2 /\ res[1].url = urls[1] /\ res[2].url = urls[2]

\* C37: a failing listener never changes the fetch outcomes: with a handler
\* whose sends can raise, every task returns the result of its backend
\* outcome, no task and no batch ends with an exception, and Scraper.run
\* returns the accepted outcomes in input order, the list a working listener
\* gives.
C37_FailingListenerHarmless ==
    /\ \A i \in Tasks : pc[i] # "raised" /\ (pc[i] = "done" => result[i] = OutcomeResult(i))
    /\ runPc # "raised"
    /\ runPc \in {"summary", "returned"} =>
          res = FilterContents([i \in Tasks |-> OutcomeResult(i)])

\* C37 witness: the source_update of an accepted URL raised in the listener,
\* so that its success log was skipped and the log lacks the outcome, and the
\* batch has returned the URL with its content.
C37_Witness ==
    /\ websocket = "handler_ws" /\ runPc = "returned"
    /\ sources # baseline
    /\ \E i \in Tasks :
          /\ OutcomeResult(i).raw_content # None
          /\ sent[i] = <<"logs", "source_update">>
          /\ \E k \in 1..Len(res) : res[k] = OutcomeResult(i)

\* run has ended after the silencing of lines 83-84: by returning, or by the
\* exception of the introduction, of a subtopic pass or of the assembly.
SilentCalls == {"write_introduction", "write_report_conclusion"} \cup SubtopicCalls
EndedAfterSilencing ==
    \/ drPc = "returned"
    \/ drPc = "raised" /\ drExc \in SilentCalls

\* C38: whenever DetailedReport.run ends, by returning or by an exception of
\* the introduction, of a subtopic pass or of the assembly, the websocket and
\* the verbose flag of the top-level researcher hold the values they had
\* before the silent phase.
C38_SilencingNeverOutlivesRun ==
    EndedAfterSilencing =>
        /\ gr_websocket = original.ws
        /\ gr_verbose = original.verbose

\* The number of subtopic passes that have completed, and the step that
\* completes one.
CompletedPasses ==
    IF drPc \in {"sub_research", "sub_write"} THEN current - 1
    ELSE IF drPc = "raised" /\ drExc \in SubtopicCalls THEN current - 1
    ELSE IF drPc \in {"idle", "initial", "subtopics", "introduction"} THEN 0
    ELSE IF drPc = "raised" /\ drExc # "write_report_conclusion" THEN 0
    ELSE Len(subtopics)
PassCompletes == drPc = "sub_write" /\ drPc' \in {"sub_research", "conclusion"}
IsPrefix(a, b) == Len(a) <= Len(b) /\ SubSeq(b, 1, Len(a)) = a

\* C39: every completed subtopic pass, with or without a report, appends
\* exactly one entry to existing_headers and folds its context and its URLs
\* into the shared state: after k completed passes existing_headers has
\* exactly k entries, those of the first k subtopics in decomposition order,
\* and global_written_sections only grows.
C39_OneEntryPerPass ==
    /\ [](/\ Len(existing_headers) = CompletedPasses
          /\ \A k \in 1..Len(existing_headers) : existing_headers[k].task = subtopics[k].task)
    /\ [][/\ IsPrefix(global_written_sections, global_written_sections')
          /\ PassCompletes =>
                /\ existing_headers' =
                       Append(existing_headers, existing_headers'[Len(existing_headers')])
                /\ assistant.context \subseteq global_context'
                /\ assistant.visited_urls \subseteq global_urls']_vars

\* C39 witness: two passes have completed, the first with an empty report and
\* the second with sections, context and URLs of its own.
C39_Witness ==
    /\ drPc = "conclusion" /\ Len(subtopics) = 2 /\ Len(existing_headers) = 2
    /\ ~WroteReport(existing_headers[1]) /\ WroteReport(existing_headers[2])
    /\ global_written_sections # <<>>
    /\ global_context # {} /\ global_urls # {}

\* The records whose used flag is known: true or false.
Known(srcs) == {k \in 1..Len(srcs) : srcs[k].used # "None"}

\* C40: the used flag of a record only moves from unknown to known: no
\* event of a fetch batch (attempt log, source_update, summary) makes a known
\* flag unknown or removes the record, and when a batch logged by a working
\* listener has returned, every URL of the batch has a record, and no record
\* of it has used unknown.
C40_UsedOnlyBecomesKnown ==
    /\ [][\A k \in Known(sources) :
              /\ k \in Known(sources')
              /\ sources'[k].url = sources[k].url]_vars
    /\ []((Logging /\ runPc = "returned") =>
             \A i \in Tasks :
                 /\ HasUrl(sources, urls[i])
                 /\ \A k \in RecordsOf(urls[i]) : sources[k].used # "None")

\* C40 witness: a batch that holds the same URL twice ran on a pool of one
\* slot, so that the attempt log of the second task came after the outcome
\* of the first, and the batch has returned with the flag of the URL known.
C40_Witness ==
    /\ Logging /\ runPc = "returned" /\ max_workers = 1
    /\ Len(urls) = 2 /\ urls[1] = urls[2]
    /\ Len(sources) = 1 /\ sources[1].used = "True"
    /\ sent[1] = <<"logs", "source_update", "logs">>
    /\ sent[2] = <<"logs", "source_update", "logs">>

====
